---------------------------- MODULE Spec2Model ----------------------------
(***************************************************************************)
(* A model of the light-transport core of rt-weekends: primitive           *)
(* intersection (shapes.rs), the bounding-volume hierarchy and the         *)
(* recursive estimator Scene::trace (scene.rs), and the materials          *)
(* (materials.rs).                                                          *)
(*                                                                         *)
(* Numbers.  Fp lengths (coordinates, radii, the ray parameter t) are       *)
(* integers counting units of 0.00005, so that the two thresholds of the   *)
(* code are whole numbers: 0.0001 (the AABB padding) is 2 units and 0.001  *)
(* (the lower limit of trace) is 20 units.  Polynomial expressions (dot,    *)
(* cross, the discriminant) are exact; Fp::sqrt and the division that       *)
(* yields a root round down to the unit.  Ray directions are small integer *)
(* vectors.  A unit normal n/|n| is kept exactly, as the vector n together *)
(* with the square of its length.  Colors are fixed point with ColorOne     *)
(* standing for 1.0.                                                        *)
(***************************************************************************)
EXTENDS Integers, Sequences, FiniteSets, TLC

----------------------------------------------------------------------------
(* Scalars *)

Abs(a) == IF a < 0 THEN -a ELSE a

Sgn(a) == IF a < 0 THEN -1 ELSE IF a > 0 THEN 1 ELSE 0

Min2(a, b) == IF b < a THEN b ELSE a

Max2(a, b) == IF b > a THEN b ELSE a

\* Division rounding down, for a divisor of either sign (b # 0).
FloorDiv(a, b) == IF b > 0 THEN a \div b ELSE (-a) \div (-b)

\* Fp::sqrt of a non-negative number, rounded down.
RECURSIVE SqrtBits(_, _, _)
SqrtBits(n, r, bit) ==
    IF bit = 0 THEN r
    ELSE IF (r + bit) * (r + bit) <= n THEN SqrtBits(n, r + bit, bit \div 2)
         ELSE SqrtBits(n, r, bit \div 2)

FpSqrt(n) == SqrtBits(n, 0, 16384)

----------------------------------------------------------------------------
(* vecmath.rs *)

Vec3(x, y, z) == [x |-> x, y |-> y, z |-> z]

VZero == Vec3(0, 0, 0)

VAdd(a, b) == Vec3(a.x + b.x, a.y + b.y, a.z + b.z)

VSub(a, b) == Vec3(a.x - b.x, a.y - b.y, a.z - b.z)

VScale(s, v) == Vec3(s * v.x, s * v.y, s * v.z)

VNeg(v) == Vec3(-v.x, -v.y, -v.z)

dot(a, b) == a.x * b.x + a.y * b.y + a.z * b.z

cross(a, b) == Vec3(a.y * b.z - a.z * b.y,
                    a.z * b.x - a.x * b.z,
                    a.x * b.y - a.y * b.x)

length_squared(v) == dot(v, v)

----------------------------------------------------------------------------
(* shapes.rs: rays and intersection records *)

\* Ray::new.  inv_dir and signs are functions of the direction and are
\* computed where Aabb::ray_intersect reads them (InvDirSign, SlabT).
Ray(origin, dir) == [origin |-> origin, direction |-> dir]

\* ray.signs[axis]: 1 when 1/d < 0, else 0 (1/0 is +infinity).
InvDirSign(d) == IF d < 0 THEN 1 ELSE 0

\* std::ops::Range<Fp> and Range::contains: start <= t < end.
Limits(start, end) == [start |-> start, end |-> end]

Contains(limits, t) == limits.start <= t /\ t < limits.end

\* The unit vector v / sqrt(d2), kept exactly.
Normal(v, d2) == [v |-> v, d2 |-> d2]

\* dot(normal, dir) > 0.0.  With d2 = 0 the components are v/0: +-infinity
\* for v # 0 and NaN for v = 0, and the comparison is false for a NaN sum.
DotPositive(n, dir) ==
    IF n.d2 > 0 THEN dot(n.v, dir) > 0
    ELSE LET term(c, d) == IF c = 0 \/ d = 0 THEN 0 ELSE Sgn(c) * Sgn(d)
             tx == term(n.v.x, dir.x)
             ty == term(n.v.y, dir.y)
             tz == term(n.v.z, dir.z)
         IN  tx = 1 /\ ty = 1 /\ tz = 1

\* dot(normal, dir) <= 0.0, false as well when the dot product is NaN.
DotNonPositive(n, dir) ==
    IF n.d2 > 0 THEN dot(n.v, dir) <= 0
    ELSE LET term(c, d) == IF c = 0 \/ d = 0 THEN 0 ELSE Sgn(c) * Sgn(d)
             tx == term(n.v.x, dir.x)
             ty == term(n.v.y, dir.y)
             tz == term(n.v.z, dir.z)
         IN  tx = -1 /\ ty = -1 /\ tz = -1

\* A surface coordinate num / den.
Coord(num, den) == [num |-> num, den |-> den]

\* RayIntersection { hit: false, ..Default::default() }
NoIntersection ==
    [hit |-> FALSE, t |-> 0, is_normal_outward |-> FALSE,
     hit_point |-> VZero, normal |-> Normal(VZero, 1),
     u |-> Coord(0, 1), v |-> Coord(0, 1)]

----------------------------------------------------------------------------
(* shapes.rs: Sphere *)

Sphere(position, radius, material) ==
    [kind |-> "Sphere", position |-> position, radius |-> radius,
     material |-> material]

\* A variant of the solver that tries the larger root first.
SphereRootLargerFirst(s, ray, limits) ==
    LET center_to_origin == VSub(ray.origin, s.position)
        a == dot(ray.direction, ray.direction)
        half_b == dot(center_to_origin, ray.direction)
        c == length_squared(center_to_origin) - s.radius * s.radius
        discriminant == half_b * half_b - a * c
    IN  IF discriminant < 0 \/ a = 0
        THEN [t |-> 0, hit |-> FALSE]
        ELSE LET discriminant_sqrt == FpSqrt(discriminant)
                 t1 == FloorDiv(-half_b - discriminant_sqrt, a)
                 t2 == FloorDiv(-half_b + discriminant_sqrt, a)
             IN  IF Contains(limits, t2)
                 THEN [t |-> t2, hit |-> TRUE]
                 ELSE [t |-> t1, hit |-> Contains(limits, t1)]

\* The root the quadratic solver reports and whether it lies in the limits.
SphereRoot(s, ray, limits) ==
    LET center_to_origin == VSub(ray.origin, s.position)
        a == dot(ray.direction, ray.direction)
        half_b == dot(center_to_origin, ray.direction)
        c == length_squared(center_to_origin) - s.radius * s.radius
        discriminant == half_b * half_b - a * c
    IN  IF discriminant < 0 \/ a = 0
        THEN [t |-> 0, hit |-> FALSE]
        ELSE LET discriminant_sqrt == FpSqrt(discriminant)
                 t1 == FloorDiv(-half_b - discriminant_sqrt, a)
                 t2 == FloorDiv(-half_b + discriminant_sqrt, a)
             IN  IF Contains(limits, t1)
                 THEN [t |-> t1, hit |-> TRUE]
                 ELSE [t |-> t2, hit |-> Contains(limits, t2)]

\* Longitude and latitude of a point of the unit sphere, kept as terms over
\* the point: phi / (2 PI) and theta / PI.
get_sphere_uv(unit_sphere_p) ==
    [u |-> [longitude |-> unit_sphere_p], v |-> [latitude |-> unit_sphere_p]]

SphereRayIntersect(s, ray, limits) ==
    LET root == SphereRoot(s, ray, limits)
        hit_point == VAdd(ray.origin, VScale(root.t, ray.direction))
        offset == VSub(hit_point, s.position)
        normal == Normal(IF s.radius < 0 THEN VNeg(offset) ELSE offset,
                         s.radius * s.radius)
        flip == DotPositive(normal, ray.direction)
    IN  [hit |-> root.hit, t |-> root.t,
         is_normal_outward |-> ~flip,
         hit_point |-> hit_point,
         normal |-> IF flip THEN Normal(VNeg(normal.v), normal.d2) ELSE normal,
         u |-> get_sphere_uv(IF flip THEN Normal(VNeg(normal.v), normal.d2)
                             ELSE normal).u,
         v |-> get_sphere_uv(IF flip THEN Normal(VNeg(normal.v), normal.d2)
                             ELSE normal).v]

----------------------------------------------------------------------------
(* shapes.rs: Quad *)

\* Quad::new.  n = cross(edge0, edge1); normal = n / |n|; w = n / |n|^2;
\* d = dot(normal, corner).  n and |n|^2 are stored, the quotients are
\* formed where they are used.
Quad(corner, edge0, edge1, material) ==
    LET n == cross(edge0, edge1)
    IN  [kind |-> "Quad", corner |-> corner, edges |-> <<edge0, edge1>>,
         n |-> n, n_len_sqr |-> length_squared(n), material |-> material]

other_corner(q) == VAdd(VAdd(q.corner, q.edges[1]), q.edges[2])

\* A variant of the interval test that leaves out the end points.
UnitIntervalOpen(num, den) == 0 < num /\ num < den

\* RangeInclusive::new(0.0, 1.0).contains(num / den), den > 0.
UnitIntervalContains(num, den) == 0 <= num /\ num <= den

QuadRayIntersect(q, ray, limits) ==
    LET denominator == dot(q.n, ray.direction)
    IN  IF denominator # 0 /\ q.n_len_sqr > 0
        THEN LET t == FloorDiv(dot(q.n, VSub(q.corner, ray.origin)), denominator)
             IN  IF Contains(limits, t)
                 THEN LET hit_point == VAdd(ray.origin, VScale(t, ray.direction))
                          corner_to_hit_point == VSub(hit_point, q.corner)
                          alpha == dot(q.n, cross(corner_to_hit_point, q.edges[2]))
                          beta == dot(q.n, cross(q.edges[1], corner_to_hit_point))
                      IN  IF UnitIntervalContains(alpha, q.n_len_sqr)
                             /\ UnitIntervalContains(beta, q.n_len_sqr)
                          THEN [hit |-> TRUE, t |-> t,
                                is_normal_outward |-> FALSE,
                                hit_point |-> hit_point,
                                normal |-> Normal(q.n, q.n_len_sqr),
                                u |-> Coord(alpha, q.n_len_sqr),
                                v |-> Coord(beta, q.n_len_sqr)]
                          ELSE NoIntersection
                 ELSE NoIntersection
        ELSE NoIntersection

----------------------------------------------------------------------------
(* shapes.rs: Shape *)

ShapeRayIntersect(shape, ray, limits) ==
    IF shape.kind = "Sphere" THEN SphereRayIntersect(shape, ray, limits)
    ELSE QuadRayIntersect(shape, ray, limits)

get_material(shape) == shape.material

----------------------------------------------------------------------------
(* shapes.rs: Aabb *)

\* 0.0001, the width below which Aabb::from_quad pads an axis.
AabbPadDelta == 2

Aabb(min, max) == [min |-> min, max |-> max]

from_sphere(s) ==
    LET extent == Vec3(s.radius, s.radius, s.radius)
    IN  Aabb(VSub(s.position, extent), VAdd(s.position, extent))

\* One axis of from_quad: pad by delta / 2 on both sides if too narrow.
PadAxis(lo, hi) ==
    IF hi - lo < AabbPadDelta
    THEN [lo |-> lo - AabbPadDelta \div 2, hi |-> hi + AabbPadDelta \div 2]
    ELSE [lo |-> lo, hi |-> hi]

from_quad(q) ==
    LET p0 == q.corner
        p1 == other_corner(q)
        bx == PadAxis(Min2(p0.x, p1.x), Max2(p0.x, p1.x))
        by == PadAxis(Min2(p0.y, p1.y), Max2(p0.y, p1.y))
        bz == PadAxis(Min2(p0.z, p1.z), Max2(p0.z, p1.z))
    IN  Aabb(Vec3(bx.lo, by.lo, bz.lo), Vec3(bx.hi, by.hi, bz.hi))

\* A variant of merge that takes the z range of its first argument.
merge_flat(a, b) ==
    Aabb(Vec3(Min2(a.min.x, b.min.x), Min2(a.min.y, b.min.y), a.min.z),
         Vec3(Max2(a.max.x, b.max.x), Max2(a.max.y, b.max.y), a.max.z))

merge(a, b) ==
    Aabb(Vec3(Min2(a.min.x, b.min.x), Min2(a.min.y, b.min.y), Min2(a.min.z, b.min.z)),
         Vec3(Max2(a.max.x, b.max.x), Max2(a.max.y, b.max.y), Max2(a.max.z, b.max.z)))

calc_aabb(shape) ==
    IF shape.kind = "Sphere" THEN from_sphere(shape) ELSE from_quad(shape)

\* The condition of the debug_assert! that opens Aabb::ray_intersect.
AabbAssertion(aabb) ==
    /\ aabb.min.x < aabb.max.x
    /\ aabb.min.y < aabb.max.y
    /\ aabb.min.z < aabb.max.z

\* (bound - origin) * inv_dir with inv_dir = 1 / d, as an extended number:
\* a fraction n / den, +infinity, -infinity or NaN (0 * infinity).
SlabT(bound, origin, d) ==
    IF d = 0
    THEN [k |-> IF bound > origin THEN "pinf"
                ELSE IF bound < origin THEN "ninf" ELSE "nan",
          n |-> 0, den |-> 1]
    ELSE [k |-> "fin", n |-> (bound - origin) * Sgn(d), den |-> Abs(d)]

\* A variant of the comparison that holds for equal numbers too.
ExtLessOrEqual(a, b) ==
    /\ a.k # "nan"
    /\ b.k # "nan"
    /\ \/ a.k = b.k /\ a.k # "fin"
       \/ a.k = "ninf"
       \/ b.k = "pinf"
       \/ a.k = "fin" /\ b.k = "fin" /\ a.n * b.den <= b.n * a.den

\* a < b on extended numbers; false when either is NaN.
ExtLess(a, b) ==
    /\ a.k # "nan"
    /\ b.k # "nan"
    /\ a.k # "pinf"
    /\ b.k # "ninf"
    /\ \/ a.k = "ninf"
       \/ b.k = "pinf"
       \/ a.n * b.den < b.n * a.den

\* Fp::max and Fp::min: a NaN operand yields the other operand.
FpMax(a, b) ==
    IF a.k = "nan" THEN b ELSE IF b.k = "nan" THEN a
    ELSE IF ExtLess(a, b) THEN b ELSE a

FpMin(a, b) ==
    IF a.k = "nan" THEN b ELSE IF b.k = "nan" THEN a
    ELSE IF ExtLess(b, a) THEN b ELSE a

\* bounds[sign] and bounds[1 - sign] of one axis.
NearBound(lo, hi, d) == IF InvDirSign(d) = 1 THEN hi ELSE lo

FarBound(lo, hi, d) == IF InvDirSign(d) = 1 THEN lo ELSE hi

AabbRayIntersect(aabb, ray) ==
    LET o == ray.origin
        d == ray.direction
        tx_min == SlabT(NearBound(aabb.min.x, aabb.max.x, d.x), o.x, d.x)
        tx_max == SlabT(FarBound(aabb.min.x, aabb.max.x, d.x), o.x, d.x)
        ty_min == SlabT(NearBound(aabb.min.y, aabb.max.y, d.y), o.y, d.y)
        ty_max == SlabT(FarBound(aabb.min.y, aabb.max.y, d.y), o.y, d.y)
        tz_min == SlabT(NearBound(aabb.min.z, aabb.max.z, d.z), o.z, d.z)
        tz_max == SlabT(FarBound(aabb.min.z, aabb.max.z, d.z), o.z, d.z)
        tmin == FpMax(FpMax(tx_min, ty_min), tz_min)
        tmax == FpMin(FpMin(tx_max, ty_max), tz_max)
    IN  ExtLess(tmin, tmax)

----------------------------------------------------------------------------
(* scene.rs: the bounding-volume hierarchy *)

BvhLeaf(aabb, shape_index) ==
    [kind |-> "Leaf", aabb |-> aabb, shape_index |-> shape_index]

BvhLink(aabb, left, right) ==
    [kind |-> "Link", aabb |-> aabb, left |-> left, right |-> right]

\* A variant of build_bvh that numbers the right half from shape_start.
RECURSIVE build_bvh_renumbered(_, _)
build_bvh_renumbered(shapes, shape_start) ==
    IF Len(shapes) = 1
    THEN [kind |-> "Leaf", aabb |-> calc_aabb(shapes[1]), shape_index |-> shape_start]
    ELSE LET middle == Len(shapes) \div 2
             left == build_bvh_renumbered(SubSeq(shapes, 1, middle), shape_start)
             right == build_bvh_renumbered(SubSeq(shapes, middle + 1, Len(shapes)),
                                           shape_start)
         IN  [kind |-> "Link", aabb |-> merge(left.aabb, right.aabb),
              left |-> left, right |-> right]

\* shapes is a non-empty slice; shape_start is the index of its first
\* element in the whole list (indices count from 0 as in the code).
RECURSIVE build_bvh(_, _)
build_bvh(shapes, shape_start) ==
    IF Len(shapes) = 1
    THEN BvhLeaf(calc_aabb(shapes[1]), shape_start)
    ELSE LET middle == Len(shapes) \div 2
             left == build_bvh(SubSeq(shapes, 1, middle), shape_start)
             right == build_bvh(SubSeq(shapes, middle + 1, Len(shapes)),
                                shape_start + middle)
         IN  BvhLink(merge(left.aabb, right.aabb), left, right)

\* The result of bvh_ray_intersect: the intersection, the shape index, and
\* whether a debug assertion failed on the way (checked builds only).
BvhResult(isect, index, panicked) ==
    [isect |-> isect, index |-> index, panicked |-> panicked]

\* A variant of bvh_ray_intersect that queries the right child over the
\* whole of limits.
RECURSIVE bvh_ray_intersect_unclipped(_, _, _, _, _)
bvh_ray_intersect_unclipped(bvh_node, shapes, ray, limits, debug) ==
    IF debug /\ ~AabbAssertion(bvh_node.aabb)
    THEN [isect |-> NoIntersection, index |-> 0, panicked |-> TRUE]
    ELSE IF AabbRayIntersect(bvh_node.aabb, ray)
    THEN IF bvh_node.kind = "Leaf"
         THEN [isect |-> ShapeRayIntersect(shapes[bvh_node.shape_index + 1], ray, limits),
               index |-> bvh_node.shape_index, panicked |-> FALSE]
         ELSE LET l == bvh_ray_intersect_unclipped(bvh_node.left, shapes, ray, limits, debug)
                  r == bvh_ray_intersect_unclipped(bvh_node.right, shapes, ray, limits, debug)
              IN  IF l.panicked THEN l
                  ELSE IF r.panicked THEN r
                  ELSE IF r.isect.hit THEN r ELSE l
    ELSE [isect |-> NoIntersection, index |-> 0, panicked |-> FALSE]

RECURSIVE bvh_ray_intersect(_, _, _, _, _)
bvh_ray_intersect(bvh_node, shapes, ray, limits, debug) ==
    IF debug /\ ~AabbAssertion(bvh_node.aabb)
    THEN BvhResult(NoIntersection, 0, TRUE)
    ELSE IF AabbRayIntersect(bvh_node.aabb, ray)
    THEN IF bvh_node.kind = "Leaf"
         THEN BvhResult(ShapeRayIntersect(shapes[bvh_node.shape_index + 1], ray, limits),
                        bvh_node.shape_index, FALSE)
         ELSE LET l == bvh_ray_intersect(bvh_node.left, shapes, ray, limits, debug)
                  right_limits ==
                      Limits(limits.start,
                             IF l.isect.hit THEN l.isect.t ELSE limits.end)
                  r == bvh_ray_intersect(bvh_node.right, shapes, ray, right_limits, debug)
              IN  IF l.panicked THEN l
                  ELSE IF r.panicked THEN r
                  ELSE IF r.isect.hit THEN r ELSE l
    ELSE BvhResult(NoIntersection, 0, FALSE)

----------------------------------------------------------------------------
(* Colors (Color3F) *)

\* The Fp value 1.0 of a color component.
ColorOne == 100

Color(r, g, b) == Vec3(r, g, b)

ColorZero == VZero

ColorAdd(a, b) == VAdd(a, b)

\* Color3F * Color3F, component-wise.
ColorMul(a, b) ==
    Vec3((a.x * b.x) \div ColorOne, (a.y * b.y) \div ColorOne, (a.z * b.z) \div ColorOne)

\* Color3F * Fp.
ColorScale(c, s) ==
    Vec3((c.x * s) \div ColorOne, (c.y * s) \div ColorOne, (c.z * s) \div ColorOne)

----------------------------------------------------------------------------
(* The random generator handed through every sampling call (rand::Rng).    *)
(* A linear congruential generator stands for SmallRng: the state is the   *)
(* value of the last draw, every gen_range call advances it once.           *)

RandMod == 16

RandMul == 5

RandInc == 3

RandNext(s) == (s * RandMul + RandInc) % RandMod

\* rand.gen_range(0.0..1.0), as a color-scale fraction in [0, ColorOne).
DrawUnit(s) == (s * ColorOne) \div RandMod

\* rand.gen_range(-1.0..1.0) on the direction grid.
DrawCoord(s) == ((s \div 2) % 3) - 1

----------------------------------------------------------------------------
(* Directions *)

\* The directions with components in -1..1, in a fixed order.
GridDirs ==
    << Vec3(1, 0, 0), Vec3(-1, 0, 0), Vec3(0, 1, 0), Vec3(0, -1, 0),
       Vec3(0, 0, 1), Vec3(0, 0, -1),
       Vec3(1, 1, 0), Vec3(1, -1, 0), Vec3(-1, 1, 0), Vec3(-1, -1, 0),
       Vec3(1, 0, 1), Vec3(1, 0, -1), Vec3(-1, 0, 1), Vec3(-1, 0, -1),
       Vec3(0, 1, 1), Vec3(0, 1, -1), Vec3(0, -1, 1), Vec3(0, -1, -1),
       Vec3(1, 1, 1), Vec3(1, 1, -1), Vec3(1, -1, 1), Vec3(1, -1, -1),
       Vec3(-1, 1, 1), Vec3(-1, 1, -1), Vec3(-1, -1, 1), Vec3(-1, -1, -1) >>

\* Vec3F::normalized on the direction grid: the grid direction nearest to v
\* (the zero vector, whose normalization is NaN, stays zero).
normalized(v) ==
    LET m == Max2(Abs(v.x), Max2(Abs(v.y), Abs(v.z)))
        q(c) == IF 2 * Abs(c) >= m /\ c # 0 THEN Sgn(c) ELSE 0
    IN  Vec3(q(v.x), q(v.y), q(v.z))

\* The vector num / den put on the direction grid: exact when the quotient
\* is a vector of integers, the nearest grid direction otherwise.
ToGrid(num, den) ==
    IF den > 0 /\ num.x % den = 0 /\ num.y % den = 0 /\ num.z % den = 0
    THEN Vec3(num.x \div den, num.y \div den, num.z \div den)
    ELSE normalized(num)

\* reflect(in_dir, normal) = in_dir - 2 * dot(in_dir, normal) * normal, for
\* the unit normal n.v / sqrt(n.d2).
reflect(in_dir, n) ==
    ToGrid(VSub(VScale(n.d2, in_dir), VScale(2 * dot(in_dir, n.v), n.v)), n.d2)

----------------------------------------------------------------------------
(* materials.rs *)

MaterialDiffuse(albedo) ==
    [kind |-> "Diffuse", tex |-> [kind |-> "Solid", color |-> albedo]]

\* MaterialMetal::new clamps fuzz to [-1, 1].
MaterialMetal(albedo, fuzz) ==
    [kind |-> "Metal", albedo |-> albedo,
     fuzz |-> IF fuzz < -1 THEN -1 ELSE IF fuzz > 1 THEN 1 ELSE fuzz]

\* refrac_index = num / den.
MaterialDielectric(num, den) ==
    [kind |-> "Dielectric", refrac_index |-> [num |-> num, den |-> den]]

MaterialDiffuseLight(albedo) == [kind |-> "DiffuseLight", albedo |-> albedo]

\* A variant of emit that forgets the emission of a light.
emit_nothing(material) == ColorZero

\* Material::emit
emit(material) ==
    IF material.kind = "DiffuseLight" THEN material.albedo ELSE ColorZero

\* TextureChecker::new(odd_color, even_color, scale); inv_scale = 1 / scale.
TextureChecker(odd_color, even_color, scale) ==
    [kind |-> "Checker", odd_color |-> odd_color, even_color |-> even_color,
     scale |-> scale]

\* MaterialDiffuse::new_checker(even, odd, scale) hands its arguments to
\* TextureChecker::new in the order even, odd, scale.
new_checker(even, odd, scale) ==
    [kind |-> "Diffuse", tex |-> TextureChecker(even, odd, scale)]

\* The remainder of i32 division, which has the sign of the dividend.
RemI32(a, b) == IF a >= 0 THEN a % b ELSE -((-a) % b)

\* TextureChecker::value: floor(pos * inv_scale) on each axis (scale > 0).
CheckerValue(tex, pos) ==
    LET xi == FloorDiv(pos.x, tex.scale)
        yi == FloorDiv(pos.y, tex.scale)
        zi == FloorDiv(pos.z, tex.scale)
        is_even == RemI32(xi + yi + zi, 2) = 0
    IN  IF is_even THEN tex.even_color ELSE tex.odd_color

\* Texture::value for the solid and the checker texture.
tex_color(material, p) ==
    IF material.tex.kind = "Checker" THEN CheckerValue(material.tex, p)
    ELSE material.tex.color

\* MaterialDielectric::reflectance (Schlick), as a fraction of ColorOne.
\* cos_in_angle is a fraction of ColorOne, refrac_index is num / den.
reflectance(cos_in_angle, refrac_index) ==
    LET p == refrac_index.num
        q == refrac_index.den
        r0 == ((q - p) * (q - p) * ColorOne) \div ((q + p) * (q + p))
        x == ColorOne - cos_in_angle
        x2 == (x * x) \div ColorOne
        x4 == (x2 * x2) \div ColorOne
        x5 == (x4 * x) \div ColorOne
    IN  r0 + ((ColorOne - r0) * x5) \div ColorOne

\* refract(in_dir, normal, refrac_index).  With m = dot(in_dir, n.v) the
\* perpendicular part is (num/den) * (d2 * in_dir - m * n.v) / d2 and the
\* parallel part is -sqrt(|side_len|) * n.v / sqrt(d2).
refract(in_dir, n, refrac_index) ==
    LET p == refrac_index.num
        q == refrac_index.den
        m == dot(in_dir, n.v)
        dd == length_squared(in_dir)
        side == q * q * n.d2 * dd - p * p * (dd * n.d2 - m * m)
        perp == VScale(p, VSub(VScale(n.d2, in_dir), VScale(m, n.v)))
        parallel == VScale(-FpSqrt(Abs(side)), n.v)
    IN  ToGrid(VAdd(perp, parallel), q * n.d2)

----------------------------------------------------------------------------
(* scene.rs: Scene::scatter *)

ScatterNone(rand) == [some |-> FALSE, rand |-> rand]

ScatterResult(ray, albedo, probability, skip_pdf, rand) ==
    [some |-> TRUE, ray |-> ray, albedo |-> albedo, probability |-> probability,
     skip_pdf |-> skip_pdf, rand |-> rand]

\* PdfCosineHemisphere::gen_sample followed by from_local_to_world_space:
\* two draws select a direction of the hemisphere around the normal
\* (z = sqrt(1 - r2) > 0, so the direction has a positive dot product with
\* the normal).  A NaN normal has no such direction: the NaN direction is
\* the zero vector, which hits nothing.
HemisphereDirs(n) == SelectSeq(GridDirs, LAMBDA d : DotPositive(n, d))

CosineSample(n, rand) ==
    LET r1 == RandNext(rand)
        r2 == RandNext(r1)
        dirs == HemisphereDirs(n)
    IN  [dir |-> IF Len(dirs) = 0 THEN VZero
                 ELSE dirs[((r1 + 3 * r2) % Len(dirs)) + 1],
         rand |-> r2]

\* sample.probability = z / PI with z the cosine to the normal.
CosineProbability(n, dir) ==
    LET den == FpSqrt(n.d2 * length_squared(dir))
    IN  IF den = 0 THEN 0 ELSE (dot(n.v, dir) * ColorOne * 100) \div (den * 314)

\* The rejection loop of the metal branch: draw a vector of the cube until
\* 1e-8 <= len_sqr <= 1, then normalize it.  fuel bounds the iterations.
RECURSIVE RandomUnitDir(_, _)
RandomUnitDir(rand, fuel) ==
    LET s1 == RandNext(rand)
        s2 == RandNext(s1)
        s3 == RandNext(s2)
        rand_dir == Vec3(DrawCoord(s1), DrawCoord(s2), DrawCoord(s3))
        len_sqr == length_squared(rand_dir)
    IN  IF len_sqr <= 1 /\ len_sqr >= 1
        THEN [dir |-> rand_dir, rand |-> s3]
        ELSE IF fuel = 0 THEN [dir |-> VZero, rand |-> s3]
        ELSE RandomUnitDir(s3, fuel - 1)

\* A variant of the diffuse branch that leaves skip_pdf unset.
ScatterDiffuseWithPdf(intersection, mat, rand) ==
    LET sample == CosineSample(intersection.normal, rand)
    IN  [some |-> TRUE, ray |-> Ray(intersection.hit_point, sample.dir),
         albedo |-> tex_color(mat, intersection.hit_point),
         probability |-> CosineProbability(intersection.normal, sample.dir),
         skip_pdf |-> FALSE, rand |-> sample.rand]

ScatterDiffuse(intersection, mat, rand) ==
    LET sample == CosineSample(intersection.normal, rand)
    IN  ScatterResult(Ray(intersection.hit_point, sample.dir),
                      tex_color(mat, intersection.hit_point),
                      CosineProbability(intersection.normal, sample.dir),
                      TRUE, sample.rand)

\* A variant of the metal branch that keeps a direction lying in the surface.
ScatterMetalGrazing(incident_ray, intersection, mat, rand) ==
    LET reflected_dir == reflect(incident_ray.direction, intersection.normal)
        unit == RandomUnitDir(rand, RandMod)
        scattered_ray == VAdd(normalized(reflected_dir), VScale(mat.fuzz, unit.dir))
    IN  IF dot(intersection.normal.v, scattered_ray) >= 0
        THEN [some |-> TRUE, ray |-> Ray(intersection.hit_point, scattered_ray),
              albedo |-> mat.albedo, probability |-> ColorOne, skip_pdf |-> TRUE,
              rand |-> unit.rand]
        ELSE [some |-> FALSE, rand |-> unit.rand]

ScatterMetal(incident_ray, intersection, mat, rand) ==
    LET reflected_dir == reflect(incident_ray.direction, intersection.normal)
        unit == RandomUnitDir(rand, RandMod)
        scattered_ray == VAdd(normalized(reflected_dir), VScale(mat.fuzz, unit.dir))
    IN  IF DotPositive(intersection.normal, scattered_ray)
        THEN ScatterResult(Ray(intersection.hit_point, scattered_ray),
                           mat.albedo, ColorOne, TRUE, unit.rand)
        ELSE ScatterNone(unit.rand)

\* A variant of the dielectric branch that leaves the choice between
\* reflection and refraction to the draw alone.
ScatterDielectricByDraw(incident_ray, intersection, mat, rand) ==
    LET ri == mat.refrac_index
        refrac_index == IF intersection.is_normal_outward
                        THEN [num |-> ri.den, den |-> ri.num]
                        ELSE ri
        n == intersection.normal
        d == incident_ray.direction
        len == FpSqrt(length_squared(d) * n.d2)
        cos_in_angle == IF len = 0 THEN ColorOne
                        ELSE Min2(FloorDiv(-dot(d, n.v) * ColorOne, len), ColorOne)
        draw == RandNext(rand)
        no_refract == reflectance(cos_in_angle, refrac_index) > DrawUnit(draw)
        out_dir == IF no_refract THEN reflect(d, n) ELSE refract(d, n, refrac_index)
    IN  [some |-> TRUE, ray |-> Ray(intersection.hit_point, out_dir),
         albedo |-> Color(ColorOne, ColorOne, ColorOne), probability |-> ColorOne,
         skip_pdf |-> TRUE, rand |-> draw]

ScatterDielectric(incident_ray, intersection, mat, rand) ==
    LET attenuation == Color(ColorOne, ColorOne, ColorOne)
        ri == mat.refrac_index
        refrac_index == IF intersection.is_normal_outward
                        THEN [num |-> ri.den, den |-> ri.num]
                        ELSE ri
        n == intersection.normal
        d == incident_ray.direction
        m == dot(d, n.v)
        dd == length_squared(d)
        len == FpSqrt(dd * n.d2)
        cos_in_angle == IF len = 0 THEN ColorOne
                        ELSE Min2(FloorDiv(-m * ColorOne, len), ColorOne)
        \* (refrac_index * sin_in_angle) > 1.0, squared and cleared of fractions
        total_reflection ==
            refrac_index.num * refrac_index.num * (dd * n.d2 - m * m)
                > refrac_index.den * refrac_index.den * dd * n.d2
        draw == RandNext(rand)
        no_refract == total_reflection
                      \/ reflectance(cos_in_angle, refrac_index) > DrawUnit(draw)
        out_dir == IF no_refract THEN reflect(d, n) ELSE refract(d, n, refrac_index)
    IN  ScatterResult(Ray(intersection.hit_point, out_dir), attenuation, ColorOne,
                      TRUE, IF total_reflection THEN rand ELSE draw)

\* A variant of Scene::scatter in which a light scatters like a mirror.
scatter_lights_too(incident_ray, intersection, material, rand) ==
    CASE material.kind = "Diffuse" -> ScatterDiffuse(intersection, material, rand)
      [] material.kind = "Metal" ->
            ScatterMetal(incident_ray, intersection, material, rand)
      [] material.kind = "Dielectric" ->
            ScatterDielectric(incident_ray, intersection, material, rand)
      [] OTHER -> [some |-> TRUE,
                   ray |-> Ray(intersection.hit_point,
                               reflect(incident_ray.direction, intersection.normal)),
                   albedo |-> material.albedo, probability |-> ColorOne,
                   skip_pdf |-> TRUE, rand |-> rand]

\* Scene::scatter
scatter(incident_ray, intersection, material, rand) ==
    CASE material.kind = "Diffuse" -> ScatterDiffuse(intersection, material, rand)
      [] material.kind = "Metal" ->
            ScatterMetal(incident_ray, intersection, material, rand)
      [] material.kind = "Dielectric" ->
            ScatterDielectric(incident_ray, intersection, material, rand)
      [] OTHER -> ScatterNone(rand)

----------------------------------------------------------------------------
(* scene.rs: Scene *)

TRACE_MAX_DEPTH == 50

\* 0.001, the lower limit of the intersections trace accepts.
TraceMinT == 20

\* Fp::MAX
FpMAX == 1000000

Scene(shapes, is_background_sky) ==
    [shapes |-> shapes, is_background_sky |-> is_background_sky]

White == Color(ColorOne, ColorOne, ColorOne)

\* A closed room without emitters, black background: a diffuse sphere
\* around the origin holding a fuzzy metal sphere and a glass sphere.
SceneDarkRoom ==
    Scene(<< Sphere(Vec3(0, 0, 0), 100, MaterialDiffuse(Color(70, 30, 30))),
             Sphere(Vec3(50, 0, 0), 25, MaterialMetal(Color(80, 80, 80), 1)),
             Sphere(Vec3(-50, 0, 0), 25, MaterialDielectric(3, 2)) >>,
          FALSE)

\* The same kind of room lit by a quad light, with a mirror floor; black
\* background (the layout of Scene::cornell_box).
SceneLitRoom ==
    Scene(<< Sphere(Vec3(0, 0, 0), 100, MaterialDiffuse(White)),
             Quad(Vec3(-20, 80, -20), Vec3(40, 0, 0), Vec3(0, 0, 40),
                  MaterialDiffuseLight(Color(1500, 1500, 1500))),
             Quad(Vec3(-20, -80, -20), Vec3(40, 0, 0), Vec3(0, 0, 40),
                  MaterialMetal(Color(80, 60, 20), 0)) >>,
          FALSE)

\* Spheres over a ground quad under the sky (the layout of
\* Scene::three_spheres_dielectric), with a small light.
SceneSky ==
    Scene(<< Quad(Vec3(-20, -80, -20), Vec3(40, 0, 0), Vec3(0, 0, 40),
                  MaterialDiffuse(Color(50, 50, 50))),
             Sphere(Vec3(0, 0, -60), 25, MaterialDielectric(3, 2)),
             Sphere(Vec3(60, 0, 0), 25, MaterialMetal(Color(80, 60, 20), 1)),
             Sphere(Vec3(-60, 0, 0), 25, MaterialDiffuseLight(Color(400, 400, 400))) >>,
          TRUE)

TraceScenes == {SceneDarkRoom, SceneLitRoom, SceneSky}

\* A variant of the loop that keeps the later hit whatever its t.
RECURSIVE ScanShapesLastHit(_, _, _, _)
ScanShapesLastHit(shapes, i, ray, nearest) ==
    IF i > Len(shapes) THEN nearest
    ELSE LET intersection ==
                 ShapeRayIntersect(shapes[i], ray, Limits(TraceMinT, FpMAX))
         IN  IF intersection.hit
             THEN ScanShapesLastHit(shapes, i + 1, ray,
                                    [intersection |-> intersection,
                                     material |-> get_material(shapes[i]),
                                     index |-> i - 1])
             ELSE ScanShapesLastHit(shapes, i + 1, ray, nearest)

\* The loop over self.shapes of Scene::trace, from index i on: keep the
\* hit with the smallest t, the earlier shape on a tie.
RECURSIVE ScanShapes(_, _, _, _)
ScanShapes(shapes, i, ray, nearest) ==
    IF i > Len(shapes) THEN nearest
    ELSE LET limits == Limits(TraceMinT, FpMAX)
             intersection == ShapeRayIntersect(shapes[i], ray, limits)
         IN  IF intersection.hit /\ intersection.t < nearest.intersection.t
             THEN ScanShapes(shapes, i + 1, ray,
                             [intersection |-> intersection,
                              material |-> get_material(shapes[i]),
                              index |-> i - 1])
             ELSE ScanShapes(shapes, i + 1, ray, nearest)

\* nearest_intersection = { t: Fp::MAX, ..default }, nearest_material = None
NearestInit ==
    [intersection |-> [NoIntersection EXCEPT !.t = FpMAX],
     material |-> [kind |-> "None"], index |-> -1]

NearestHit(shapes, ray) == ScanShapes(shapes, 1, ray, NearestInit)

\* ray.direction.normalized().y as a fraction of ColorOne.
NormalizedY(dir) ==
    LET len == FpSqrt(length_squared(dir) * ColorOne * ColorOne)
    IN  IF len = 0 THEN 0 ELSE FloorDiv(dir.y * ColorOne * ColorOne, len)

\* Variants of the background: one ignores the flag, one swaps the two
\* ends of the gradient.
BackgroundAlwaysSky(is_background_sky, ray) ==
    LET a == (NormalizedY(ray.direction) + ColorOne) \div 2
    IN  ColorAdd(ColorScale(Color(ColorOne, ColorOne, ColorOne), ColorOne - a),
                 ColorScale(Color(50, 70, 100), a))

BackgroundSwapped(is_background_sky, ray) ==
    IF is_background_sky
    THEN LET a == (NormalizedY(ray.direction) + ColorOne) \div 2
         IN  ColorAdd(ColorScale(Color(ColorOne, ColorOne, ColorOne), a),
                      ColorScale(Color(50, 70, 100), ColorOne - a))
    ELSE ColorZero

\* The else branch of trace: the sky gradient or black.
Background(is_background_sky, ray) ==
    IF is_background_sky
    THEN LET a == (NormalizedY(ray.direction) + ColorOne) \div 2
         IN  ColorAdd(ColorScale(White, ColorOne - a),
                      ColorScale(Color(50, 70, 100), a))
    ELSE ColorZero

\* Variants of the depth test: off by one, and absent.
DepthReached(d) == d >= TRACE_MAX_DEPTH

DepthUnchecked(d) == FALSE

\* depth > Self::TRACE_MAX_DEPTH
DepthExceeded(d) == d > TRACE_MAX_DEPTH

\* A variant of the product that drops the albedo.
ScatteredColorUnweighted(albedo, traced) == traced

\* scattered.albedo * self.trace(&scattered.ray, rand, depth + 1)
ScatteredColor(albedo, traced) == ColorMul(albedo, traced)

----------------------------------------------------------------------------
(* The state of one top-level call of Scene::trace and of the recursion    *)
(* under it.                                                               *)

VARIABLES
    scene,      \* the Scene (read-only during the call)
    ray,        \* the ray of the current invocation
    depth,      \* the depth argument of the current invocation
    rand,       \* the state of the generator handed through the calls
    stack,      \* the callers waiting for their recursive call, outermost first
    pc,         \* where the current invocation stands
    nearest,    \* nearest_intersection and nearest_material after the loop
    result,     \* the color the current invocation returns
    tests,      \* number of shape.ray_intersect calls made so far
    samples,    \* number of Scene::scatter calls made so far
    last,       \* what the last step did (history, read by the properties)
    depth0,     \* the depth argument of the top-level call
    geo,        \* the boxes made and the last hierarchy query (geometry only)
    render      \* the threads of main and the shared image (rendering only)

vars == <<scene, ray, depth, rand, stack, pc, nearest, result, tests, samples,
          last, depth0, geo, render>>

\* No thread started, no image.
RenderIdle ==
    [h |-> 0, n |-> 0, main |-> [pc |-> "idle", k |-> 0], worker |-> <<>>,
     lock |-> 0, poisoned |-> FALSE, locks |-> <<>>, rows_traced |-> 0,
     written |-> <<>>, progress |-> [pc |-> "idle", seen |-> 0],
     file_written |-> FALSE,
     image |-> [width |-> 0, height |-> 0, pixels |-> <<>>], file |-> <<>>]

\* No box made, no query asked.
GeoIdle ==
    [op |-> "idle", boxes |-> <<>>, merges |-> 0,
     a |-> Aabb(VZero, VZero), b |-> Aabb(VZero, VZero),
     box |-> Aabb(VZero, VZero), debug |-> FALSE,
     result |-> BvhResult(NoIntersection, 0, FALSE),
     tree |-> BvhLeaf(Aabb(VZero, VZero), 0), slice |-> <<>>, shape_start |-> 0,
     node |-> BvhLeaf(Aabb(VZero, VZero), 0), limits |-> Limits(0, 0),
     index |-> 0, isect |-> NoIntersection, box_hit |-> FALSE]

\* Largest seed of the generator tried.
MaxSeed == 3

\* Largest top-level depth argument tried beyond TRACE_MAX_DEPTH.
MaxDepthOver == 2

DepthArgs == {0} \cup ((TRACE_MAX_DEPTH - 1) .. (TRACE_MAX_DEPTH + MaxDepthOver))

\* Camera positions: the room's center, and points 0.001 and just less
\* than 0.001 above the floor quad of SceneLitRoom.
RayOrigins == {Vec3(0, 0, 0), Vec3(0, -80 + TraceMinT, 0), Vec3(0, -80 + TraceMinT - 1, 0)}

RayDirs == {GridDirs[i] : i \in 1..Len(GridDirs)}

TraceInit ==
    /\ scene \in TraceScenes
    /\ ray \in {Ray(o, d) : o \in RayOrigins, d \in RayDirs}
    /\ depth0 \in DepthArgs
    /\ depth = depth0
    /\ rand \in 0..MaxSeed
    /\ stack = <<>>
    /\ pc = "call"
    /\ nearest = NearestInit
    /\ result = ColorZero
    /\ tests = 0
    /\ samples = 0
    /\ last = [op |-> "init"]
    /\ geo = GeoIdle
    /\ render = RenderIdle

\* if depth > Self::TRACE_MAX_DEPTH { return Color3F::zero(); }
TraceCutoff ==
    /\ pc = "call"
    /\ DepthExceeded(depth)
    /\ result' = ColorZero
    /\ pc' = "ret"
    /\ last' = [op |-> "cutoff", depth |-> depth, tests |-> tests, samples |-> samples]
    /\ UNCHANGED <<scene, ray, depth, rand, stack, nearest, tests, samples, depth0, geo, render>>

TraceBegin ==
    /\ pc = "call"
    /\ ~DepthExceeded(depth)
    /\ pc' = "scan"
    /\ last' = [op |-> "begin", depth |-> depth]
    /\ UNCHANGED <<scene, ray, depth, rand, stack, nearest, result, tests, samples, depth0, geo, render>>

\* for shape in self.shapes.iter() { ... }
TraceScan ==
    /\ pc = "scan"
    /\ nearest' = NearestHit(scene.shapes, ray)
    /\ tests' = tests + Len(scene.shapes)
    /\ pc' = "shade"
    /\ last' = [op |-> "scan", depth |-> depth]
    /\ UNCHANGED <<scene, ray, depth, rand, stack, result, samples, depth0, geo, render>>

\* The else branch of `if nearest_intersection.hit`.
TraceMiss ==
    /\ pc = "shade"
    /\ ~nearest.intersection.hit
    /\ result' = Background(scene.is_background_sky, ray)
    /\ pc' = "ret"
    /\ last' = [op |-> "miss", depth |-> depth, samples |-> samples]
    /\ UNCHANGED <<scene, ray, depth, rand, stack, nearest, tests, samples, depth0, geo, render>>

\* A hit whose material returns None: the result is emission_color.
TraceAbsorb ==
    /\ pc = "shade"
    /\ nearest.intersection.hit
    /\ LET material == nearest.material
           emission_color == emit(material)
           scattered == scatter(ray, nearest.intersection, material, rand)
       IN  /\ ~scattered.some
           /\ result' = emission_color
           /\ rand' = scattered.rand
           /\ last' = [op |-> "absorb", depth |-> depth, material |-> material]
    /\ samples' = samples + 1
    /\ pc' = "ret"
    /\ UNCHANGED <<scene, ray, depth, stack, nearest, tests, depth0, geo, render>>

\* A hit whose material returns Some(scattered) with skip_pdf set: the
\* invocation waits for self.trace(&scattered.ray, rand, depth + 1).
TraceScatter ==
    /\ pc = "shade"
    /\ nearest.intersection.hit
    /\ LET material == nearest.material
           emission_color == emit(material)
           scattered == scatter(ray, nearest.intersection, material, rand)
       IN  /\ scattered.some
           /\ scattered.skip_pdf
           /\ stack' = Append(stack, [albedo |-> scattered.albedo,
                                      emission_color |-> emission_color,
                                      material |-> material,
                                      depth |-> depth])
           /\ ray' = scattered.ray
           /\ rand' = scattered.rand
           /\ last' = [op |-> "scatter", depth |-> depth, material |-> material,
                       skip_pdf |-> scattered.skip_pdf]
    /\ depth' = depth + 1
    /\ samples' = samples + 1
    /\ pc' = "call"
    /\ UNCHANGED <<scene, nearest, result, tests, depth0, geo, render>>

\* The recursive call returns into the waiting invocation, which returns
\* scattered.albedo * (the color traced).
TraceReturn ==
    /\ pc = "ret"
    /\ stack # <<>>
    /\ LET frame == stack[Len(stack)]
       IN  /\ result' = ScatteredColor(frame.albedo, result)
           /\ depth' = frame.depth
           /\ last' = [op |-> "return", depth |-> frame.depth,
                       material |-> frame.material, albedo |-> frame.albedo,
                       emission_color |-> frame.emission_color, traced |-> result]
    /\ stack' = SubSeq(stack, 1, Len(stack) - 1)
    /\ UNCHANGED <<scene, ray, rand, pc, nearest, tests, samples, depth0, geo, render>>

\* The top-level call returns to its caller.
TraceDone ==
    /\ pc = "ret"
    /\ stack = <<>>
    /\ pc' = "done"
    /\ last' = [op |-> "done", depth |-> depth]
    /\ UNCHANGED <<scene, ray, depth, rand, stack, nearest, result, tests, samples, depth0, geo, render>>

TraceNext ==
    \/ TraceCutoff
    \/ TraceBegin
    \/ TraceScan
    \/ TraceMiss
    \/ TraceAbsorb
    \/ TraceScatter
    \/ TraceReturn
    \/ TraceDone

Spec == TraceInit /\ [][TraceNext]_vars

\* The steps of trace that only move control: the depth test, the entry
\* into the loop, the return to the caller.
TraceControl == TraceCutoff \/ TraceBegin \/ TraceReturn \/ TraceDone

\* The steps of trace that compute: the loop over the shapes and the
\* three outcomes of the match on the nearest hit.
TraceCompute == TraceScan \/ TraceMiss \/ TraceAbsorb \/ TraceScatter

\* ENABLED <<TraceCompute>>_vars as a state predicate: the loop can always
\* run, and one of the three outcomes always applies.
TraceComputeEnabled == pc \in {"scan", "shade"}

\* The call runs on one thread: a step that can be taken is taken.  The
\* second conjunct is weak fairness of TraceCompute, with its enabling
\* condition written as TraceComputeEnabled.
FairSpec ==
    /\ Spec
    /\ WF_vars(TraceControl)
    /\ ([]<>(~TraceComputeEnabled) \/ []<><<TraceCompute>>_vars)

----------------------------------------------------------------------------
(* Properties of Scene::trace *)

\* C1: an invocation of trace with depth > 50 returns black without testing
\* a primitive or sampling a material; an invocation with depth <= 50
\* (50 included) goes on to the intersection loop.
DepthCutoffIsHard ==
    /\ last.op = "cutoff" =>
          /\ last.depth > 50
          /\ pc = "ret"
          /\ result = ColorZero
          /\ tests = last.tests
          /\ samples = last.samples
    /\ last.op = "begin" => (last.depth <= 50 /\ pc = "scan")

\* A call with depth 0 whose recursion ran into the cutoff at depth 51.
DepthCutoffReached ==
    last.op = "cutoff" /\ last.depth = 51 /\ depth0 = 0 /\ pc = "ret"

\* C2: trace(ray, 0) terminates: every invocation waits for at most one
\* recursive call, made with depth + 1, so the nested invocations have the
\* depths depth0, depth0 + 1, ... and never exceed 51, and the top-level
\* call eventually returns.
ChainIsBounded ==
    /\ depth = depth0 + Len(stack)
    /\ \A i \in 1..Len(stack) : stack[i].depth = depth0 + i - 1
    /\ depth0 = 0 => depth <= 51

NonEmissive(sc) ==
    \A i \in 1..Len(sc.shapes) :
        sc.shapes[i].material.kind \in {"Diffuse", "Metal", "Dielectric"}

DarkSceneIsBlack ==
    (NonEmissive(scene) /\ ~scene.is_background_sky /\ pc \in {"ret", "done"})
        => result = ColorZero

\* A dark scene in which a call with depth 0 bounced, left the room and
\* returned.
DarkSceneTraced ==
    /\ NonEmissive(scene)
    /\ ~scene.is_background_sky
    /\ pc = "done"
    /\ depth0 = 0
    /\ samples >= 1
    /\ samples < 51

\* C4: an invocation whose material scattered with skip_pdf set returns
\* emission + albedo * (the color of the recursive call), component-wise.
ScatterAddsWeightedRadiance ==
    last.op = "return" =>
        result = ColorAdd(emit(last.material), ColorMul(last.albedo, last.traced))

\* A recursive call returned a color that the albedo then changed.
WeightedRadianceReturned ==
    /\ last.op = "return"
    /\ last.traced # ColorZero
    /\ result # last.traced
    /\ result # ColorZero

\* C5: when the material of the nearest hit does not scatter, the
\* invocation returns the material's emitted color (the light's color for
\* a DiffuseLight, black for any other material) and makes no recursive
\* call; a DiffuseLight never scatters.
AbsorbReturnsEmission ==
    /\ last.op = "absorb" =>
          /\ last.material.kind \in {"DiffuseLight", "Metal"}
          /\ result = IF last.material.kind = "DiffuseLight"
                       THEN last.material.albedo ELSE ColorZero
          /\ pc = "ret"
          /\ depth = last.depth
          /\ Len(stack) = last.depth - depth0
    /\ last.op = "scatter" => last.material.kind # "DiffuseLight"

\* A light was hit after at least one bounce and its color returned.
LightReturned ==
    /\ last.op = "absorb"
    /\ last.material.kind = "DiffuseLight"
    /\ result # ColorZero
    /\ depth > depth0

\* The hit of the i-th shape of the scene for the ray of the invocation,
\* with t accepted from lo.
HitFrom(i, lo) == ShapeRayIntersect(scene.shapes[i], ray, Limits(lo, FpMAX))

ShapesHitFrom(lo) == {i \in 1..Len(scene.shapes) : HitFrom(i, lo).hit}

\* C6 as stated: no hit with t <= 0.001 is ever selected for shading.
NearestBeyondEpsilon ==
    (pc = "shade" /\ nearest.intersection.hit)
        => nearest.intersection.t > TraceMinT

\* C6: the hit that is shaded is the hit with the least t among the hits
\* of all shapes with t in [0.001, Fp::MAX), the first such shape on a tie;
\* when no shape has such a hit the ray is a miss; no hit with t < 0.001
\* is ever selected.
NearestIsLeastFromEpsilon ==
    pc = "shade" =>
        /\ nearest.intersection.hit <=> ShapesHitFrom(TraceMinT) # {}
        /\ nearest.intersection.hit =>
              LET i == nearest.index + 1
              IN  /\ i \in ShapesHitFrom(TraceMinT)
                  /\ nearest.intersection = HitFrom(i, TraceMinT)
                  /\ nearest.material = get_material(scene.shapes[i])
                  /\ nearest.intersection.t >= TraceMinT
                  /\ nearest.intersection.t < FpMAX
                  /\ \A j \in ShapesHitFrom(TraceMinT) :
                        \/ nearest.intersection.t < HitFrom(j, TraceMinT).t
                        \/ /\ nearest.intersection.t = HitFrom(j, TraceMinT).t
                           /\ i <= j

\* Two shapes are hit, the nearer one is not the first of them in the
\* list, and it is the one selected.
NearerLaterShapeSelected ==
    /\ pc = "shade"
    /\ nearest.intersection.hit
    /\ \E j \in ShapesHitFrom(TraceMinT) :
          /\ j < nearest.index + 1
          /\ HitFrom(j, TraceMinT).t > nearest.intersection.t

\* C7: when no shape is hit the invocation returns black if the scene's
\* background flag says so, and otherwise (1-a)*(1,1,1) + a*(0.5,0.7,1.0)
\* with a = 0.5*(y+1), y the y component of the normalized direction; no
\* material is sampled and no recursive call is made.
SkyColorAt(a) ==
    Vec3((ColorOne * (ColorOne - a)) \div ColorOne + (50 * a) \div ColorOne,
         (ColorOne * (ColorOne - a)) \div ColorOne + (70 * a) \div ColorOne,
         (ColorOne * (ColorOne - a)) \div ColorOne + (100 * a) \div ColorOne)

MissReturnsBackground ==
    last.op = "miss" =>
        /\ pc = "ret"
        /\ samples = last.samples
        /\ depth = last.depth
        /\ Len(stack) = last.depth - depth0
        /\ result = IF scene.is_background_sky
                     THEN SkyColorAt((NormalizedY(ray.direction) + ColorOne) \div 2)
                     ELSE ColorZero

\* A bounced ray that is not horizontal left the scene under the sky.
SkyReturnedAfterBounce ==
    /\ last.op = "miss"
    /\ scene.is_background_sky
    /\ ray.direction.y # 0
    /\ depth > depth0
    /\ result # ColorZero

----------------------------------------------------------------------------
(* Boxes and the hierarchy: a scene is given, boxes are made from its      *)
(* shapes and merged, and rays are sent through the hierarchy built over   *)
(* the scene and through the loop of Scene::trace.                         *)

GeoMaterial == MaterialDiffuse(Color(50, 50, 50))

\* Two spheres and a floor quad, all well apart.
GeoSceneRoom ==
    Scene(<< Sphere(Vec3(50, 0, 0), 25, GeoMaterial),
             Sphere(Vec3(-50, 0, 0), 25, GeoMaterial),
             Quad(Vec3(-20, -80, -20), Vec3(40, 0, 0), Vec3(0, 0, 40), GeoMaterial) >>,
          FALSE)

\* A quad in the plane z = -60 whose edges are the diagonals' directions,
\* and a sphere.
GeoSceneTilted ==
    Scene(<< Quad(Vec3(0, -40, -60), Vec3(40, 40, 0), Vec3(-40, 40, 0), GeoMaterial),
             Sphere(Vec3(0, 60, 0), 25, GeoMaterial) >>,
          FALSE)

\* A sphere of radius zero and a sphere.
GeoScenePoint ==
    Scene(<< Sphere(Vec3(0, 0, -40), 0, GeoMaterial),
             Sphere(Vec3(0, 60, 0), 25, GeoMaterial) >>,
          FALSE)

\* One quad in the plane z = 0 with edges along x and y.
GeoSceneQuad ==
    Scene(<< Quad(Vec3(0, 0, 0), Vec3(40, 0, 0), Vec3(0, 40, 0), GeoMaterial) >>,
          FALSE)

GeoScenes == {GeoSceneRoom, GeoSceneTilted, GeoScenePoint, GeoSceneQuad}

GeoOrigins == {Vec3(0, 0, 0), Vec3(20, 0, 0), Vec3(-25, 25, 25)}

\* Largest number of merges made in a row.
MaxMerges == 2

\* The two boxes made last.
LastTwo(boxes) ==
    IF Len(boxes) <= 2 THEN boxes ELSE SubSeq(boxes, Len(boxes) - 1, Len(boxes))

GeoInit ==
    /\ scene \in GeoScenes
    /\ ray = Ray(VZero, Vec3(0, 0, -1))
    /\ depth0 = 0
    /\ depth = 0
    /\ rand = 0
    /\ stack = <<>>
    /\ pc = "done"
    /\ nearest = NearestInit
    /\ result = ColorZero
    /\ tests = 0
    /\ samples = 0
    /\ last = [op |-> "init"]
    /\ geo = GeoIdle
    /\ render = RenderIdle

\* Aabb::from_sphere on a sphere of the scene.
GeoFromSphere ==
    \E i \in 1..Len(scene.shapes) :
        /\ scene.shapes[i].kind = "Sphere"
        /\ LET box == from_sphere(scene.shapes[i])
           IN  geo' = [geo EXCEPT !.op = "from_sphere", !.box = box,
                                  !.boxes = LastTwo(Append(geo.boxes, box)),
                                  !.merges = 0]
        /\ UNCHANGED <<scene, ray, depth, rand, stack, pc, nearest, result, tests,
                       samples, last, depth0, render>>

\* Aabb::from_quad on a quad of the scene.
GeoFromQuad ==
    \E i \in 1..Len(scene.shapes) :
        /\ scene.shapes[i].kind = "Quad"
        /\ LET box == from_quad(scene.shapes[i])
           IN  geo' = [geo EXCEPT !.op = "from_quad", !.box = box,
                                  !.boxes = LastTwo(Append(geo.boxes, box)),
                                  !.merges = 0]
        /\ UNCHANGED <<scene, ray, depth, rand, stack, pc, nearest, result, tests,
                       samples, last, depth0, render>>

\* Aabb::merge on two of the boxes made last.
GeoMerge ==
    /\ geo.merges < MaxMerges
    /\ \E i, j \in 1..Len(geo.boxes) :
          LET box == merge(geo.boxes[i], geo.boxes[j])
          IN  geo' = [geo EXCEPT !.op = "merge", !.a = geo.boxes[i],
                                 !.b = geo.boxes[j], !.box = box,
                                 !.boxes = LastTwo(Append(geo.boxes, box)),
                                 !.merges = geo.merges + 1]
    /\ UNCHANGED <<scene, ray, depth, rand, stack, pc, nearest, result, tests,
                   samples, last, depth0, render>>

\* One ray through build_bvh and bvh_ray_intersect, and through the loop
\* of Scene::trace, with the limits of Scene::trace; debug tells whether
\* the build checks debug assertions.
GeoQuery ==
    \E o \in GeoOrigins, d \in RayDirs, debug \in BOOLEAN :
        /\ ray' = Ray(o, d)
        /\ nearest' = NearestHit(scene.shapes, Ray(o, d))
        /\ geo' = [geo EXCEPT !.op = "query", !.debug = debug,
                              !.result = bvh_ray_intersect(
                                             build_bvh(scene.shapes, 0),
                                             scene.shapes, Ray(o, d),
                                             Limits(TraceMinT, FpMAX), debug)]
        /\ UNCHANGED <<scene, depth, rand, stack, pc, result, tests, samples,
                       last, depth0, render>>

\* Making and merging boxes.
BoxNext ==
    \/ GeoFromSphere
    \/ GeoFromQuad
    \/ GeoMerge

BoxSpec == GeoInit /\ [][BoxNext]_vars

\* Sending rays through the hierarchy of the scene.
BvhNext == GeoQuery

BvhSpec == GeoInit /\ [][BvhNext]_vars

----------------------------------------------------------------------------
(* Properties of the boxes and of the hierarchy *)

\* C8 as stated: the query through the hierarchy and the loop over all
\* shapes agree: both miss, or both hit the same shape index with the
\* same t.
BvhAgreesWithLinearScan ==
    geo.op = "query" =>
        /\ ~geo.result.panicked
        /\ geo.result.isect.hit <=> nearest.intersection.hit
        /\ geo.result.isect.hit =>
              /\ geo.result.index = nearest.index
              /\ geo.result.isect.t = nearest.intersection.t

\* C9 as stated: every box made by from_sphere, from_quad or merge has
\* min < max on all three axes (the condition of the debug assertion of
\* Aabb::ray_intersect).
BoxesAreProper ==
    \A i \in 1..Len(geo.boxes) : AabbAssertion(geo.boxes[i])

\* a lies within b on every axis.
Within(a, b) ==
    /\ b.min.x <= a.min.x /\ a.max.x <= b.max.x
    /\ b.min.y <= a.min.y /\ a.max.y <= b.max.y
    /\ b.min.z <= a.min.z /\ a.max.z <= b.max.z

\* C10: merge(A, B) contains A and B, each of its six bounds is the bound
\* of A or of B (so no smaller box contains both), merge(A, A) = A and
\* merge(A, B) = merge(B, A).
MergeIsLeastBox ==
    geo.op = "merge" =>
        /\ geo.box = merge(geo.a, geo.b)
        /\ Within(geo.a, geo.box)
        /\ Within(geo.b, geo.box)
        /\ geo.box.min.x \in {geo.a.min.x, geo.b.min.x}
        /\ geo.box.min.y \in {geo.a.min.y, geo.b.min.y}
        /\ geo.box.min.z \in {geo.a.min.z, geo.b.min.z}
        /\ geo.box.max.x \in {geo.a.max.x, geo.b.max.x}
        /\ geo.box.max.y \in {geo.a.max.y, geo.b.max.y}
        /\ geo.box.max.z \in {geo.a.max.z, geo.b.max.z}
        /\ merge(geo.a, geo.a) = geo.a
        /\ merge(geo.b, geo.b) = geo.b
        /\ merge(geo.b, geo.a) = geo.box

\* Two boxes neither of which contains the other were merged.
DisjointBoxesMerged ==
    /\ geo.op = "merge"
    /\ ~Within(geo.a, geo.b)
    /\ ~Within(geo.b, geo.a)
    /\ geo.box # geo.a
    /\ geo.box # geo.b

----------------------------------------------------------------------------
(* Properties of the intersection records *)

\* C11 as stated: the normal of every hit returned by Sphere::ray_intersect
\* or Quad::ray_intersect has dot(normal, ray.direction) <= 0.
HitNormalOpposesRay ==
    \A i \in 1..Len(scene.shapes) :
        LET intersection == HitFrom(i, TraceMinT)
        IN  (pc = "shade" /\ intersection.hit)
                => DotNonPositive(intersection.normal, ray.direction)

----------------------------------------------------------------------------
(* main.rs: the render.  main spawns the progress thread and threads_num   *)
(* workers, joins them, and writes the image file.  A worker traces its    *)
(* rows one by one; after each row it locks the image, writes the row,     *)
(* unlocks, and adds one to the atomic counter rows_traced.  The image      *)
(* height (800 in main) and the number of threads are drawn from small     *)
(* ranges.  Threads are numbered from 1; thread_index is the number - 1.   *)

\* Largest image height tried.
MaxHeight == 3

\* Largest number of worker threads tried.
MaxThreads == 4

\* let rows_per_thread = IMAGE_HEIGHT / threads_num;
rows_per_thread(h, n) == h \div n

\* A variant of rows_num that gives the last thread rows_per_thread rows.
rows_num_even(thread_index, h, n) == rows_per_thread(h, n)

\* rows_num of the thread thread_index.
rows_num(thread_index, h, n) ==
    IF thread_index < n - 1
    THEN rows_per_thread(h, n)
    ELSE h - rows_per_thread(h, n) * (n - 1)

\* let row_start_index = thread_index * rows_per_thread;
row_start_index(thread_index, h, n) == thread_index * rows_per_thread(h, n)

\* A variant of the lock that never waits.
MutexAlwaysFree(r) == TRUE

\* image.lock() returns when no thread holds the mutex.
MutexFree(r) == r.lock = 0

\* A variant of the exit test of the progress thread that never succeeds.
ProgressNeverComplete(seen, h) == seen > h

\* if rows_traced == IMAGE_HEIGHT { break; }
ProgressComplete(seen, h) == seen = h

(* image.rs and trace_row of main.rs.  A pixel is kept as the list of the   *)
(* calls that made it, one entry per jitter sample: the column, the row,   *)
(* the two jitter offsets given to camera.gen_ray and the state of the     *)
(* generator handed to gen_ray and scene.trace.  The scene and the camera  *)
(* are shared and never written, so the colour is a function of that list. *)
(* The [0, 0, 0] of a new image is the empty list.  The generator advances *)
(* once per sample.                                                         *)

\* Largest image width tried.
MaxWidth == 2

\* Number of jitter samples of a pixel (PIXEL_SAMPLE_SIZE, 50 in main).
PixelSampleSize == 2

\* SmallRng::seed_from_u64(1317)
WorkerSeed == 1317

\* SmallRng::seed_from_u64(seed)
seed_from_u64(seed) == seed % RandMod

RECURSIVE RandAfter(_, _)
\* The generator s after k draws.
RandAfter(s, k) == IF k = 0 THEN s ELSE RandAfter(RandNext(s), k - 1)

\* [0, 0, 0]
BlackPixel == <<>>

\* Image::new(width, height)
Image_new(width, height) ==
    [width |-> width, height |-> height,
     pixels |-> [p \in 1..(width * height) |-> BlackPixel]]

\* A variant of write_row that copies the whole row whatever the width.
write_row_unbounded(image, row_index, row) ==
    IF ~(row_index < image.height)
    THEN [panicked |-> TRUE, image |-> image]
    ELSE LET pixel_start == row_index * image.width
         IN  [panicked |-> FALSE,
              image |-> [image EXCEPT !.pixels =
                  [p \in 1..Len(image.pixels) |->
                      IF p - 1 >= pixel_start /\ p - 1 - pixel_start < Len(row)
                      THEN row[p - pixel_start] ELSE image.pixels[p]]]]

\* Image::write_row(row_index, row): the assertion, then the copy of
\* row[i] to pixels[pixel_start + i] for i below row.len() and width.
write_row(image, row_index, row) ==
    IF ~(row_index < image.height)
    THEN [panicked |-> TRUE, image |-> image]
    ELSE LET pixel_start == row_index * image.width
         IN  [panicked |-> FALSE,
              image |-> [image EXCEPT !.pixels =
                  [p \in 1..Len(image.pixels) |->
                      IF /\ p - 1 >= pixel_start
                         /\ p - 1 - pixel_start < Len(row)
                         /\ p - 1 - pixel_start < image.width
                      THEN row[p - pixel_start] ELSE image.pixels[p]]]]

\* let pixel_samples: [(Fp, Fp); PIXEL_SAMPLE_SIZE] = std::array::from_fn(
\* |_| (rand.gen_range(0.0..1.0), rand.gen_range(0.0..1.0))), and the
\* generator after the draws.
pixel_samples_from(s, size) ==
    [pixel_samples |-> [k \in 1..size |->
                           <<DrawUnit(RandAfter(s, 2 * k - 1)),
                             DrawUnit(RandAfter(s, 2 * k))>>],
     rand |-> RandAfter(s, 2 * size)]

\* trace_row(scene, camera, row_index, row_pixels, pixel_samples, rand):
\* every pixel of the buffer is overwritten, from column 0 up, each sample
\* of a pixel tracing one ray with the generator.
trace_row(row_index, len, pixel_samples, s) ==
    LET size == Len(pixel_samples)
    IN  [row_pixels |->
             [c \in 1..len |->
                 [k \in 1..size |->
                     [col |-> c - 1, row |-> row_index,
                      dx |-> pixel_samples[k][1], dy |-> pixel_samples[k][2],
                      rand |-> RandAfter(s, (c - 1) * size + k - 1)]]],
         rand |-> RandAfter(s, len * size)]

\* A variant in which the workers trace with one generator kept beside the
\* shared counter.
SharedGenerator(r, i) == seed_from_u64(WorkerSeed + r.rows_traced)

\* &mut rand of the closure: the generator the worker made for itself.
WorkerGenerator(r, i) == r.worker[i].rand

RenderInit ==
    /\ scene = SceneLitRoom
    /\ ray = Ray(VZero, Vec3(0, 0, -1))
    /\ depth0 = 0
    /\ depth = 0
    /\ rand = 0
    /\ stack = <<>>
    /\ pc = "done"
    /\ nearest = NearestInit
    /\ result = ColorZero
    /\ tests = 0
    /\ samples = 0
    /\ last = [op |-> "init"]
    /\ geo = GeoIdle
    /\ \E h \in 1..MaxHeight, n \in 1..MaxThreads, w \in 1..MaxWidth :
          render = [h |-> h, n |-> n, main |-> [pc |-> "start", k |-> 0],
                    worker |-> [i \in 1..n |->
                                   [pc |-> "idle", r |-> 0, rand |-> 0,
                                    pixel_samples |-> <<>>,
                                    row_pixels |-> <<>>]],
                    image |-> Image_new(w, h), file |-> <<>>,
                    lock |-> 0, poisoned |-> FALSE,
                    locks |-> [i \in 1..n |-> 0], rows_traced |-> 0,
                    written |-> [row \in 1..h |-> 0],
                    progress |-> [pc |-> "idle", seen |-> 0],
                    file_written |-> FALSE]

\* Everything but render.
sceneVars ==
    <<scene, ray, depth, rand, stack, pc, nearest, result, tests, samples, last,
      depth0, geo>>

\* let progress_thread = s.spawn(...)
MainSpawnProgress ==
    /\ render.main.pc = "start"
    /\ render' = [render EXCEPT !.main.pc = "spawn", !.progress.pc = "load"]
    /\ UNCHANGED sceneVars

\* One turn of for thread_index in 0..threads_num { ... s.spawn(...) }.
\* The statements of the closure before its loop touch only what the
\* worker owns and are taken with the spawn: the generator seeded with
\* 1317, the jitter table drawn from it, the row buffer of IMAGE_WIDTH
\* black pixels.
MainSpawnWorker ==
    /\ render.main.pc = "spawn"
    /\ LET k == render.main.k
           drawn == pixel_samples_from(seed_from_u64(WorkerSeed), PixelSampleSize)
       IN  render' = [render EXCEPT
                          !.worker[k + 1].pc = "loop",
                          !.worker[k + 1].rand = drawn.rand,
                          !.worker[k + 1].pixel_samples = drawn.pixel_samples,
                          !.worker[k + 1].row_pixels =
                              [c \in 1..render.image.width |-> BlackPixel],
                          !.main.k = IF k + 1 = render.n THEN 0 ELSE k + 1,
                          !.main.pc = IF k + 1 = render.n THEN "join" ELSE "spawn"]
    /\ UNCHANGED sceneVars

\* One turn of for thread in trace_threads { assert!(thread.join().is_ok()) }
MainJoinWorker ==
    /\ render.main.pc = "join"
    /\ LET k == render.main.k
       IN  /\ render.worker[k + 1].pc \in {"done", "panicked"}
           /\ render' = [render EXCEPT
                  !.main.k = k + 1,
                  !.main.pc = IF render.worker[k + 1].pc = "panicked" THEN "panicked"
                              ELSE IF k + 1 = render.n THEN "join_progress"
                              ELSE "join"]
    /\ UNCHANGED sceneVars

\* assert!(progress_thread.join().is_ok());
MainJoinProgress ==
    /\ render.main.pc = "join_progress"
    /\ render.progress.pc = "done"
    /\ render' = [render EXCEPT !.main.pc = "write_bmp"]
    /\ UNCHANGED sceneVars

\* image.lock().unwrap().write_bmp(&image_path).unwrap();
MainWriteBmp ==
    /\ render.main.pc = "write_bmp"
    /\ MutexFree(render)
    /\ render' = IF render.poisoned
                 THEN [render EXCEPT !.main.pc = "panicked"]
                 ELSE [render EXCEPT !.main.pc = "done", !.file_written = TRUE,
                                     !.file = render.image.pixels]
    /\ UNCHANGED sceneVars

\* for r in 0..rows_num { ...; trace_row(...); the row is traced without
\* the lock.
WorkerTraceRow(i) ==
    /\ render.worker[i].pc = "loop"
    /\ render.worker[i].r < rows_num(i - 1, render.h, render.n)
    /\ LET row_index == row_start_index(i - 1, render.h, render.n)
                            + render.worker[i].r
           traced == trace_row(row_index, Len(render.worker[i].row_pixels),
                               render.worker[i].pixel_samples,
                               WorkerGenerator(render, i))
       IN  render' = [render EXCEPT !.worker[i].pc = "traced",
                                    !.worker[i].row_pixels = traced.row_pixels,
                                    !.worker[i].rand = traced.rand]
    /\ UNCHANGED sceneVars

\* The loop of the worker ends and the thread returns.
WorkerExit(i) ==
    /\ render.worker[i].pc = "loop"
    /\ render.worker[i].r >= rows_num(i - 1, render.h, render.n)
    /\ render' = [render EXCEPT !.worker[i].pc = "done"]
    /\ UNCHANGED sceneVars

\* image.lock().unwrap(): waits for the mutex; panics when it is poisoned.
WorkerLock(i) ==
    /\ render.worker[i].pc = "traced"
    /\ MutexFree(render)
    /\ render' = IF render.poisoned
                 THEN [render EXCEPT !.worker[i].pc = "panicked"]
                 ELSE [render EXCEPT !.worker[i].pc = "locked", !.lock = i,
                                     !.locks[i] = @ + 1]
    /\ UNCHANGED sceneVars

\* .write_row(row_index, &row_pixels) and the drop of the guard at the end
\* of the statement; write_row asserts row_index < height, and a panic
\* under the guard poisons the mutex.
WorkerWriteRow(i) ==
    /\ render.worker[i].pc = "locked"
    /\ LET row_index == row_start_index(i - 1, render.h, render.n)
                            + render.worker[i].r
           wrote == write_row(render.image, row_index,
                              render.worker[i].row_pixels)
       IN  render' = IF ~wrote.panicked
                     THEN [render EXCEPT !.written[row_index + 1] = @ + 1,
                                         !.image = wrote.image,
                                         !.lock = 0,
                                         !.worker[i].pc = "written"]
                     ELSE [render EXCEPT !.poisoned = TRUE, !.lock = 0,
                                         !.worker[i].pc = "panicked"]
    /\ UNCHANGED sceneVars

\* A variant of fetch_add that adds the value twice.
fetch_add_twice(counter, val) == counter + val + val

\* AtomicU32::fetch_add(val, SeqCst): the new value of the counter.
fetch_add(counter, val) == counter + val

\* rows_traced.fetch_add(1, SeqCst), and the next turn of the loop.
WorkerCount(i) ==
    /\ render.worker[i].pc = "written"
    /\ render' = [render EXCEPT !.rows_traced = fetch_add(@, 1),
                                !.worker[i].r = @ + 1,
                                !.worker[i].pc = "loop"]
    /\ UNCHANGED sceneVars

\* let rows_traced = rows_traced.load(Relaxed); print!(...)
ProgressLoad ==
    /\ render.progress.pc = "load"
    /\ render' = [render EXCEPT !.progress.seen = render.rows_traced,
                                !.progress.pc = "check"]
    /\ UNCHANGED sceneVars

\* if rows_traced == IMAGE_HEIGHT { break; }, else the next turn
ProgressCheck ==
    /\ render.progress.pc = "check"
    /\ render' = [render EXCEPT
                      !.progress.pc =
                          IF ProgressComplete(render.progress.seen, render.h)
                          THEN "done" ELSE "load"]
    /\ UNCHANGED sceneVars

Worker(i) ==
    \/ WorkerTraceRow(i)
    \/ WorkerExit(i)
    \/ WorkerLock(i)
    \/ WorkerWriteRow(i)
    \/ WorkerCount(i)

Progress == ProgressLoad \/ ProgressCheck

Main ==
    \/ MainSpawnProgress
    \/ MainSpawnWorker
    \/ MainJoinWorker
    \/ MainJoinProgress
    \/ MainWriteBmp

RenderNext ==
    \/ Main
    \/ Progress
    \/ \E i \in 1..render.n : Worker(i)

RenderSpec == RenderInit /\ [][RenderNext]_vars

\* The operating system runs every thread that can run.
RenderFairSpec ==
    /\ RenderSpec
    /\ WF_vars(Main)
    /\ WF_vars(Progress)
    /\ \A i \in 1..MaxThreads : WF_vars(i <= render.n /\ Worker(i))

----------------------------------------------------------------------------
(* Properties of the render *)

\* The rows the worker i has written so far.
RowsDoneBy(i) ==
    LET start == row_start_index(i - 1, render.h, render.n)
        done == render.worker[i].r
                    + (IF render.worker[i].pc = "written" THEN 1 ELSE 0)
    IN  {start + r : r \in 0..(done - 1)}

NoThreadPanicked ==
    /\ render.main.pc # "panicked"
    /\ ~render.poisoned
    /\ \A i \in 1..render.n : render.worker[i].pc # "panicked"

\* C12: the row ranges of the workers are contiguous, pairwise disjoint
\* and cover exactly the rows 0..H-1, for every number of threads (larger
\* than H included); every row is written exactly once, by the worker that
\* owns it, and no row index >= H is ever written.
RowRangesPartitionImage ==
    LET h == render.h
        n == render.n
        start(t) == row_start_index(t, h, n)
        num(t) == rows_num(t, h, n)
    IN  /\ start(0) = 0
        /\ \A t \in 0..(n - 1) : num(t) >= 0
        /\ \A t \in 0..(n - 2) : start(t + 1) = start(t) + num(t)
        /\ start(n - 1) + num(n - 1) = h
        /\ \A i \in 1..n : RowsDoneBy(i) \subseteq 0..(h - 1)
        /\ \A row \in 0..(h - 1) :
              render.written[row + 1] =
                  Cardinality({i \in 1..n : row \in RowsDoneBy(i)})
        /\ \A row \in 0..(h - 1) : render.written[row + 1] <= 1
        /\ render.file_written =>
              \A row \in 0..(h - 1) : render.written[row + 1] = 1
        /\ NoThreadPanicked

\* An image was completed by more threads than it has rows.
RenderedByMoreThreadsThanRows ==
    /\ render.file_written
    /\ render.n > render.h
    /\ render.h > 1

\* The state part of C13.
MutexState ==
    /\ Cardinality({i \in 1..render.n : render.worker[i].pc = "locked"}) <= 1
    /\ \A i \in 1..render.n :
          /\ render.worker[i].pc = "locked" <=> render.lock = i
          /\ render.locks[i] =
                render.worker[i].r
                    + (IF render.worker[i].pc \in {"locked", "written"}
                       THEN 1 ELSE 0)

\* The step part of C13: the image changes only in a step of the worker
\* that holds the lock.
ImageWriteUnderLock ==
    render'.written # render.written =>
        \E i \in 1..render.n :
            /\ render.lock = i
            /\ render.worker[i].pc = "locked"
            /\ render'.lock = 0

\* C13: the image is modified only while its mutex is held; at most one
\* worker is inside write_row at any time; a worker has locked the mutex
\* once for every row it has completed; no worker holds the lock while it
\* traces a row.
MutexDiscipline == []MutexState /\ [][ImageWriteUnderLock]_vars

\* One worker is inside write_row while another waits for the lock.
WorkerWaitsForLock ==
    \E i, j \in 1..render.n :
        /\ i # j
        /\ render.worker[i].pc = "locked"
        /\ render.worker[j].pc = "traced"

AllThreadsTerminated ==
    /\ render.progress.pc = "done"
    /\ \A i \in 1..render.n : render.worker[i].pc = "done"

\* C14: under fair scheduling every worker finishes its rows, the progress
\* thread observes rows_traced = IMAGE_HEIGHT and leaves its loop, and the
\* image file is written, only after all of them have terminated.
RenderCompletes ==
    /\ <>(AllThreadsTerminated /\ render.progress.seen = render.h)
    /\ <>render.file_written
    /\ [](render.file_written =>
            (AllThreadsTerminated /\ render.rows_traced = render.h))

\* Two workers completed an image of at least two rows and the file was
\* written.
SharedRenderCompleted ==
    /\ render.file_written
    /\ render.n = 2
    /\ render.h >= 2

----------------------------------------------------------------------------
(* build_bvh on the slices of a scene *)

\* Five shapes of both kinds.
GeoSceneMany ==
    Scene(<< Sphere(Vec3(50, 0, 0), 25, GeoMaterial),
             Quad(Vec3(-20, -80, -20), Vec3(40, 0, 0), Vec3(0, 0, 40), GeoMaterial),
             Sphere(Vec3(-50, 0, 0), 25, GeoMaterial),
             Quad(Vec3(-20, 80, -20), Vec3(40, 0, 0), Vec3(0, 0, 40), GeoMaterial),
             Sphere(Vec3(0, 0, -60), 10, GeoMaterial) >>,
          FALSE)

\* Largest shape_start tried.
MaxShapeStart == 7

BuildInit ==
    /\ scene \in GeoScenes \cup {GeoSceneMany}
    /\ ray = Ray(VZero, Vec3(0, 0, -1))
    /\ depth0 = 0
    /\ depth = 0
    /\ rand = 0
    /\ stack = <<>>
    /\ pc = "done"
    /\ nearest = NearestInit
    /\ result = ColorZero
    /\ tests = 0
    /\ samples = 0
    /\ last = [op |-> "init"]
    /\ geo = GeoIdle
    /\ render = RenderIdle

\* build_bvh(&shapes[lo..hi], shape_start) on a non-empty slice.
GeoBuild ==
    \E lo \in 1..Len(scene.shapes), hi \in 1..Len(scene.shapes),
       shape_start \in 0..MaxShapeStart :
        /\ lo <= hi
        /\ LET slice == SubSeq(scene.shapes, lo, hi)
           IN  geo' = [geo EXCEPT !.op = "build", !.slice = slice,
                                  !.shape_start = shape_start,
                                  !.tree = build_bvh(slice, shape_start)]
        /\ UNCHANGED <<scene, ray, depth, rand, stack, pc, nearest, result, tests,
                       samples, last, depth0, render>>

BuildNext == GeoBuild

BuildSpec == BuildInit /\ [][BuildNext]_vars

\* The shape indices of the leaves of a tree, left to right.
RECURSIVE LeafIndices(_)
LeafIndices(node) ==
    IF node.kind = "Leaf" THEN <<node.shape_index>>
    ELSE LeafIndices(node.left) \o LeafIndices(node.right)

RECURSIVE LinkCount(_)
LinkCount(node) ==
    IF node.kind = "Leaf" THEN 0
    ELSE 1 + LinkCount(node.left) + LinkCount(node.right)

\* Every link splits its leaves at len / 2 and carries the merge of its
\* children's boxes; every leaf carries the box of its shape.
RECURSIVE WellBuilt(_, _, _)
WellBuilt(node, shapes, shape_start) ==
    IF node.kind = "Leaf"
    THEN /\ Len(shapes) = 1
         /\ node.shape_index = shape_start
         /\ node.aabb = calc_aabb(shapes[1])
    ELSE LET middle == Len(shapes) \div 2
         IN  /\ Len(shapes) >= 2
             /\ Len(LeafIndices(node.left)) = middle
             /\ node.aabb = merge(node.left.aabb, node.right.aabb)
             /\ WellBuilt(node.left, SubSeq(shapes, 1, middle), shape_start)
             /\ WellBuilt(node.right, SubSeq(shapes, middle + 1, Len(shapes)),
                          shape_start + middle)

\* C15: build_bvh on a slice of n >= 1 shapes yields a tree with n leaves
\* and n - 1 links, split at len / 2; the leaves read left to right carry
\* the indices shape_start .. shape_start + n - 1, and every link's box is
\* the merge of its children's boxes.
BuildBvhShape ==
    geo.op = "build" =>
        LET n == Len(geo.slice)
        IN  /\ Len(LeafIndices(geo.tree)) = n
            /\ LinkCount(geo.tree) = n - 1
            /\ LeafIndices(geo.tree) = [i \in 1..n |-> geo.shape_start + i - 1]
            /\ WellBuilt(geo.tree, geo.slice, geo.shape_start)

\* A tree over five shapes was built from a shape_start other than 0.
FiveShapesBuilt ==
    /\ geo.op = "build"
    /\ Len(geo.slice) = 5
    /\ geo.shape_start > 0
    /\ geo.tree.kind = "Link"
    /\ geo.tree.right.kind = "Link"

----------------------------------------------------------------------------
(* bvh_ray_intersect on the link nodes of a hierarchy *)

\* The link nodes of a tree.
RECURSIVE Links(_)
Links(node) ==
    IF node.kind = "Leaf" THEN {}
    ELSE {node} \cup Links(node.left) \cup Links(node.right)

\* Ray origins on the line through the two large spheres, added to those
\* of the other queries.
LinkOrigins == GeoOrigins \cup {Vec3(100, 0, 0), Vec3(-100, 0, 0)}

\* The limits of Scene::trace, and limits cut short at either end.
LinkLimits ==
    {Limits(TraceMinT, FpMAX), Limits(TraceMinT, 100), Limits(60, FpMAX)}

\* A scene, a link node of its hierarchy, a ray and limits.
LinkInit ==
    /\ scene \in GeoScenes \cup {GeoSceneMany}
    /\ ray \in {Ray(o, d) : o \in LinkOrigins, d \in RayDirs}
    /\ depth0 = 0
    /\ depth = 0
    /\ rand = 0
    /\ stack = <<>>
    /\ pc = "done"
    /\ nearest = NearestInit
    /\ result = ColorZero
    /\ tests = 0
    /\ samples = 0
    /\ last = [op |-> "init"]
    /\ \E node \in Links(build_bvh(scene.shapes, 0)), limits \in LinkLimits,
          debug \in BOOLEAN :
           geo = [GeoIdle EXCEPT !.node = node, !.limits = limits, !.debug = debug]
    /\ render = RenderIdle

\* bvh_ray_intersect on the link node.
GeoLinkQuery ==
    /\ geo' = [geo EXCEPT !.op = "link_query",
                          !.result = bvh_ray_intersect(geo.node, scene.shapes, ray,
                                                       geo.limits, geo.debug)]
    /\ UNCHANGED <<scene, ray, depth, rand, stack, pc, nearest, result, tests,
                   samples, last, depth0, render>>

LinkNext == GeoLinkQuery

LinkSpec == LinkInit /\ [][LinkNext]_vars

\* The left child's result over the limits of the query of the node.
LeftResult ==
    bvh_ray_intersect(geo.node.left, scene.shapes, ray, geo.limits, geo.debug)

\* The right child's result over limits ending at t.
RightResult(end) ==
    bvh_ray_intersect(geo.node.right, scene.shapes, ray,
                      Limits(geo.limits.start, end), geo.debug)

\* C16: a query of a link node over [tMin, tMax) that returns gives the
\* right child's result over [tMin, leftHit.t) (over [tMin, tMax) when the
\* left child missed) when that is a hit, and the left child's result over
\* [tMin, tMax) otherwise; the hit returned has the smaller t of the
\* children's hits.
LinkReturnsNearerChild ==
    (geo.op = "link_query" /\ ~geo.result.panicked) =>
        LET left == LeftResult
            right == RightResult(IF left.isect.hit THEN left.isect.t
                                 ELSE geo.limits.end)
            whole == RightResult(geo.limits.end)
            chosen == IF right.isect.hit THEN right ELSE left
        IN  /\ geo.result.isect.hit <=> chosen.isect.hit
            /\ geo.result.isect.hit =>
                  /\ geo.result.isect = chosen.isect
                  /\ geo.result.index = chosen.index
                  /\ Contains(geo.limits, geo.result.isect.t)
                  /\ left.isect.hit => geo.result.isect.t <= left.isect.t
                  /\ right.isect.hit => geo.result.isect.t < left.isect.t
                                          \/ ~left.isect.hit
                  /\ whole.isect.hit => geo.result.isect.t <= whole.isect.t

\* Both children hit over the whole limits, the left one nearer, and the
\* node returned the left child's hit.
NearerLeftChildReturned ==
    /\ geo.op = "link_query"
    /\ ~geo.result.panicked
    /\ LeftResult.isect.hit
    /\ RightResult(geo.limits.end).isect.hit
    /\ LeftResult.isect.t < RightResult(geo.limits.end).isect.t
    /\ ~RightResult(LeftResult.isect.t).isect.hit
    /\ geo.result = LeftResult

----------------------------------------------------------------------------
(* Properties of the scatter samples *)

\* The sample Scene::scatter gives the invocation that is about to shade
\* its nearest hit.
ScatterSample == scatter(ray, nearest.intersection, nearest.material, rand)

\* C17: every sample Scene::scatter returns to trace has skip_pdf set, for
\* diffuse, metal and dielectric materials alike, so no invocation of
\* trace takes the branch that samples the lights (pdf_mixure_sample,
\* scattering_pdf and the division by the mixture pdf).
ScatterAlwaysSkipsPdf ==
    /\ (pc = "shade" /\ nearest.intersection.hit /\ ScatterSample.some)
            => ScatterSample.skip_pdf
    /\ last.op = "scatter" => last.skip_pdf

\* A metal surface scattered the ray and the invocation went on to the
\* recursive call.
MetalSampleSkippedPdf ==
    /\ last.op = "scatter"
    /\ last.material.kind = "Metal"
    /\ last.skip_pdf
    /\ pc = "call"

----------------------------------------------------------------------------
(* Shape::ray_intersect on single shapes *)

\* A sphere around the first two ray origins, a sphere of negative radius
\* and a quad whose edges are parallel.
GeoSceneOdd ==
    Scene(<< Sphere(Vec3(0, 0, 0), 50, GeoMaterial),
             Sphere(Vec3(0, 60, 0), -25, GeoMaterial),
             Quad(Vec3(0, 0, -40), Vec3(40, 0, 0), Vec3(20, 0, 0), GeoMaterial) >>,
          FALSE)

ShapeScenes == GeoScenes \cup {GeoSceneMany, GeoSceneOdd}

\* A shape of a scene, a ray and limits.
ShapeInit ==
    /\ scene \in ShapeScenes
    /\ ray \in {Ray(o, d) : o \in LinkOrigins, d \in RayDirs}
    /\ depth0 = 0
    /\ depth = 0
    /\ rand = 0
    /\ stack = <<>>
    /\ pc = "done"
    /\ nearest = NearestInit
    /\ result = ColorZero
    /\ tests = 0
    /\ samples = 0
    /\ last = [op |-> "init"]
    /\ \E index \in 1..Len(scene.shapes), limits \in LinkLimits :
           geo = [GeoIdle EXCEPT !.index = index, !.limits = limits]
    /\ render = RenderIdle

\* Shape::ray_intersect on the shape.
GeoIntersect ==
    /\ geo' = [geo EXCEPT !.op = "intersect",
                          !.isect = ShapeRayIntersect(scene.shapes[geo.index], ray,
                                                      geo.limits)]
    /\ UNCHANGED <<scene, ray, depth, rand, stack, pc, nearest, result, tests,
                   samples, last, depth0, render>>

ShapeNext == GeoIntersect

ShapeSpec == ShapeInit /\ [][ShapeNext]_vars

----------------------------------------------------------------------------
(* Properties of Sphere::ray_intersect *)

\* The shape the intersection was computed for.
TheShape == scene.shapes[geo.index]

SphereIntersected == geo.op = "intersect" /\ TheShape.kind = "Sphere"

\* The coefficients of the quadratic of the sphere and the ray.
QuadraticA == dot(ray.direction, ray.direction)

QuadraticHalfB == dot(VSub(ray.origin, TheShape.position), ray.direction)

QuadraticC ==
    length_squared(VSub(ray.origin, TheShape.position))
        - TheShape.radius * TheShape.radius

Discriminant == QuadraticHalfB * QuadraticHalfB - QuadraticA * QuadraticC

SmallerRoot == FloorDiv(-QuadraticHalfB - FpSqrt(Discriminant), QuadraticA)

LargerRoot == FloorDiv(-QuadraticHalfB + FpSqrt(Discriminant), QuadraticA)

\* C18: Sphere::ray_intersect misses when the discriminant is negative;
\* otherwise it reports the smaller root when that lies in [tMin, tMax),
\* else the larger root when that lies in [tMin, tMax), else a miss; the t
\* of a hit lies in [tMin, tMax).
SphereReportsFirstRootInLimits ==
    SphereIntersected =>
        /\ geo.isect.hit => Contains(geo.limits, geo.isect.t)
        /\ Discriminant < 0 => ~geo.isect.hit
        /\ Discriminant >= 0 =>
              /\ SmallerRoot <= LargerRoot
              /\ Contains(geo.limits, SmallerRoot)
                    => (geo.isect.hit /\ geo.isect.t = SmallerRoot)
              /\ (~Contains(geo.limits, SmallerRoot) /\ Contains(geo.limits, LargerRoot))
                    => (geo.isect.hit /\ geo.isect.t = LargerRoot)
              /\ (~Contains(geo.limits, SmallerRoot) /\ ~Contains(geo.limits, LargerRoot))
                    => ~geo.isect.hit

\* Both roots lay in the limits and the smaller one was reported.
SmallerOfTwoRootsReported ==
    /\ SphereIntersected
    /\ Discriminant > 0
    /\ Contains(geo.limits, SmallerRoot)
    /\ Contains(geo.limits, LargerRoot)
    /\ SmallerRoot < LargerRoot
    /\ geo.isect.hit
    /\ geo.isect.t = SmallerRoot


\* The geometric normal (hit_point - center) / radius before any flip.
GeometricNormal ==
    LET offset == VSub(geo.isect.hit_point, TheShape.position)
    IN  Normal(IF TheShape.radius < 0 THEN VNeg(offset) ELSE offset,
               TheShape.radius * TheShape.radius)

\* The geometric normal has the direction from the center to the hit point.
PointsAwayFromCenter ==
    /\ GeometricNormal.d2 > 0
    /\ dot(GeometricNormal.v, VSub(geo.isect.hit_point, TheShape.position)) > 0

\* At the hit point the ray does not move away from the center.
StruckFromOutside ==
    dot(VSub(geo.isect.hit_point, TheShape.position), ray.direction) <= 0

\* C19 as stated: for every sphere hit, is_normal_outward is set exactly
\* when the geometric normal points away from the center of the sphere and
\* its dot product with the ray direction is at most 0, that is, when the
\* ray strikes the sphere from outside.
OutwardFlagMeansStruckFromOutside ==
    (SphereIntersected /\ geo.isect.hit) =>
        /\ geo.isect.is_normal_outward
              <=> (PointsAwayFromCenter
                   /\ DotNonPositive(GeometricNormal, ray.direction))
        /\ geo.isect.is_normal_outward <=> StruckFromOutside


----------------------------------------------------------------------------
(* Properties of Quad::ray_intersect *)

QuadIntersected == geo.op = "intersect" /\ TheShape.kind = "Quad"

\* dot(normal, ray.direction) is a number of magnitude above 1e-8: the
\* normal n / |n| exists and the ray is not parallel to the plane.
DenominatorAboveEpsilon ==
    /\ TheShape.n_len_sqr > 0
    /\ dot(TheShape.n, ray.direction) # 0

\* The parameter at which the ray meets the plane of the quad.
PlaneT ==
    FloorDiv(dot(TheShape.n, VSub(TheShape.corner, ray.origin)),
             dot(TheShape.n, ray.direction))

PlanePoint == VAdd(ray.origin, VScale(PlaneT, ray.direction))

\* alpha and beta times |n|^2.
AlphaNum ==
    dot(TheShape.n, cross(VSub(PlanePoint, TheShape.corner), TheShape.edges[2]))

BetaNum ==
    dot(TheShape.n, cross(TheShape.edges[1], VSub(PlanePoint, TheShape.corner)))

InsideParallelogram ==
    /\ 0 <= AlphaNum /\ AlphaNum <= TheShape.n_len_sqr
    /\ 0 <= BetaNum /\ BetaNum <= TheShape.n_len_sqr

\* C20: Quad::ray_intersect reports a hit exactly when the plane
\* denominator has magnitude above 1e-8, t lies in [tMin, tMax) and alpha
\* and beta both lie in the closed interval [0, 1]; a hit carries
\* (u, v) = (alpha, beta) and the point corner + alpha edge0 + beta edge1;
\* in every other case the result is the default record with hit = false.
QuadHitsExactlyInsideParallelogram ==
    QuadIntersected =>
        /\ geo.isect.hit <=> (/\ DenominatorAboveEpsilon
                              /\ Contains(geo.limits, PlaneT)
                              /\ InsideParallelogram)
        /\ geo.isect.hit =>
              /\ geo.isect.t = PlaneT
              /\ geo.isect.hit_point = PlanePoint
              /\ geo.isect.u = Coord(AlphaNum, TheShape.n_len_sqr)
              /\ geo.isect.v = Coord(BetaNum, TheShape.n_len_sqr)
              /\ dot(TheShape.n, VSub(PlanePoint, TheShape.corner)) = 0
                    => VScale(TheShape.n_len_sqr, VSub(PlanePoint, TheShape.corner))
                         = VAdd(VScale(AlphaNum, TheShape.edges[1]),
                                VScale(BetaNum, TheShape.edges[2]))
        /\ ~geo.isect.hit => geo.isect = NoIntersection

\* A ray met a quad on its boundary, with alpha or beta 0 or 1, and the
\* hit was reported.
QuadBoundaryHit ==
    /\ QuadIntersected
    /\ geo.isect.hit
    /\ \/ geo.isect.u.num \in {0, geo.isect.u.den}
       \/ geo.isect.v.num \in {0, geo.isect.v.den}


----------------------------------------------------------------------------
(* Aabb::ray_intersect on the boxes of a scene *)

\* Aabb::ray_intersect on the box of the shape or on the box of the whole
\* hierarchy of the scene.
GeoBoxTest ==
    /\ \E box \in {calc_aabb(scene.shapes[geo.index]),
                   build_bvh(scene.shapes, 0).aabb} :
          geo' = [geo EXCEPT !.op = "box_test", !.box = box,
                             !.box_hit = AabbRayIntersect(box, ray)]
    /\ UNCHANGED <<scene, ray, depth, rand, stack, pc, nearest, result, tests,
                   samples, last, depth0, render>>

SlabNext == GeoBoxTest

SlabSpec == ShapeInit /\ [][SlabNext]_vars

\* No component of the ray direction is zero.
AllComponentsNonZero ==
    ray.direction.x # 0 /\ ray.direction.y # 0 /\ ray.direction.z # 0

\* The slab parameters (bound - origin) / d of one axis as fractions with
\* a positive denominator: near takes the bound the sign bit selects.
NearSlab(lo, hi, o, d) ==
    IF d < 0 THEN [num |-> o - hi, den |-> -d] ELSE [num |-> lo - o, den |-> d]

FarSlab(lo, hi, o, d) ==
    IF d < 0 THEN [num |-> o - lo, den |-> -d] ELSE [num |-> hi - o, den |-> d]

NearSlabs ==
    {NearSlab(geo.box.min.x, geo.box.max.x, ray.origin.x, ray.direction.x),
     NearSlab(geo.box.min.y, geo.box.max.y, ray.origin.y, ray.direction.y),
     NearSlab(geo.box.min.z, geo.box.max.z, ray.origin.z, ray.direction.z)}

FarSlabs ==
    {FarSlab(geo.box.min.x, geo.box.max.x, ray.origin.x, ray.direction.x),
     FarSlab(geo.box.min.y, geo.box.max.y, ray.origin.y, ray.direction.y),
     FarSlab(geo.box.min.z, geo.box.max.z, ray.origin.z, ray.direction.z)}

\* The largest near parameter is strictly below the smallest far one.
LargestNearBelowSmallestFar ==
    \A a \in NearSlabs, b \in FarSlabs : a.num * b.den < b.num * a.den

\* C21: for a ray with no zero direction component, Aabb::ray_intersect
\* returns true exactly when the largest of the three near-slab parameters
\* is strictly less than the smallest of the three far-slab parameters,
\* near and far chosen by the sign bits of the ray; equal values are a miss.
SlabTestIsStrict ==
    (geo.op = "box_test" /\ AllComponentsNonZero) =>
        (geo.box_hit <=> LargestNearBelowSmallestFar)

\* A ray with no zero component for which the largest near parameter
\* equals the smallest far parameter, and the box test missed.
GrazingRayMissesBox ==
    /\ geo.op = "box_test"
    /\ AllComponentsNonZero
    /\ AabbAssertion(geo.box)
    /\ \E a \in NearSlabs, b \in FarSlabs :
          /\ a.num * b.den = b.num * a.den
          /\ \A c \in NearSlabs : c.num * a.den <= a.num * c.den
          /\ \A c \in FarSlabs : b.num * c.den <= c.num * b.den
    /\ ~geo.box_hit


----------------------------------------------------------------------------
(* Scene::scatter on single hits *)

\* The fuzz arguments given to MaterialMetal::new, beyond both ends of
\* [-1, 1].
FuzzArgs == {-2, -1, 0, 1, 2}

\* Materials of every kind.
ScatterMaterials ==
    {MaterialDiffuse(Color(70, 30, 30)),
     MaterialDielectric(3, 2),
     MaterialDielectric(2, 3),
     MaterialDiffuseLight(Color(400, 300, 200))}
    \cup {MaterialMetal(Color(80, 60, 20), f) : f \in FuzzArgs}

\* Surface normals: along the axes and between them.
ScatterNormals ==
    {Vec3(0, 1, 0), Vec3(0, -1, 0), Vec3(1, 0, 0), Vec3(0, 0, 1),
     Vec3(1, 1, 0), Vec3(0, 1, -1), Vec3(1, 1, 1)}

\* A hit at hit_point with the unit normal v / |v|.
HitRecord(v, is_normal_outward) ==
    [hit |-> TRUE, t |-> 40, is_normal_outward |-> is_normal_outward,
     hit_point |-> Vec3(0, 0, -40), normal |-> Normal(v, length_squared(v)),
     u |-> Coord(0, 1), v |-> Coord(0, 1)]

\* An incident ray, a hit, a material and a state of the generator.
ScatterInit ==
    /\ scene = SceneSky
    /\ ray \in {Ray(VZero, d) : d \in RayDirs}
    /\ depth0 = 0
    /\ depth = 0
    /\ rand \in 0..(RandMod - 1)
    /\ stack = <<>>
    /\ pc = "done"
    /\ \E v \in ScatterNormals, outward \in BOOLEAN, f \in FuzzArgs,
          material \in ScatterMaterials :
           /\ material.kind = "Metal" => material = MaterialMetal(Color(80, 60, 20), f)
           /\ material.kind # "Metal" => f = 0
           /\ nearest = [intersection |-> HitRecord(v, outward),
                         material |-> material, index |-> 0]
           /\ last = [op |-> "new", fuzz |-> f]
    /\ result = ColorZero
    /\ tests = 0
    /\ samples = 0
    /\ geo = GeoIdle
    /\ render = RenderIdle

\* Scene::scatter and Material::emit on the hit.
ScatterOnce ==
    /\ last.op = "new"
    /\ LET scattered == scatter(ray, nearest.intersection, nearest.material, rand)
       IN  /\ last' = [op |-> "sample", fuzz |-> last.fuzz, seed |-> rand,
                       sample |-> scattered,
                       emission_color |-> emit(nearest.material)]
           /\ rand' = scattered.rand
    /\ UNCHANGED <<scene, ray, depth, stack, pc, nearest, result, tests, samples,
                   depth0, geo, render>>

ScatterNext == ScatterOnce

ScatterSpec == ScatterInit /\ [][ScatterNext]_vars

----------------------------------------------------------------------------
(* Properties of the materials *)

Sampled(kind) == last.op = "sample" /\ nearest.material.kind = kind

\* The direction the metal branch tests: the normalized reflection plus
\* fuzz times the unit vector drawn.
FuzzedReflection ==
    VAdd(normalized(reflect(ray.direction, nearest.intersection.normal)),
         VScale(nearest.material.fuzz, RandomUnitDir(last.seed, RandMod).dir))

\* C22: the metal branch returns no sample exactly when the fuzz-perturbed
\* reflected direction has dot(scattered, normal) <= 0, and otherwise a
\* sample with the metal's albedo and probability 1 along that direction;
\* the stored fuzz is the argument of MaterialMetal::new clamped to [-1, 1].
MetalAbsorbsBelowSurface ==
    Sampled("Metal") =>
        /\ ~last.sample.some
              <=> dot(FuzzedReflection, nearest.intersection.normal.v) <= 0
        /\ last.sample.some =>
              /\ last.sample.albedo = nearest.material.albedo
              /\ last.sample.probability = ColorOne
              /\ last.sample.ray = Ray(nearest.intersection.hit_point, FuzzedReflection)
        /\ nearest.material.fuzz \in -1..1
        /\ last.fuzz \in -1..1 => nearest.material.fuzz = last.fuzz
        /\ last.fuzz < -1 => nearest.material.fuzz = -1
        /\ last.fuzz > 1 => nearest.material.fuzz = 1

\* A metal whose fuzz argument was clamped absorbed a ray whose mirror
\* reflection leaves the surface.
FuzzAbsorbedReflection ==
    /\ Sampled("Metal")
    /\ ~last.sample.some
    /\ last.fuzz > 1
    /\ dot(normalized(reflect(ray.direction, nearest.intersection.normal)),
           nearest.intersection.normal.v) > 0


\* The ratio the dielectric branch uses: 1 / eta for an outward normal,
\* eta otherwise.
RefractionRatio ==
    IF nearest.intersection.is_normal_outward
    THEN [num |-> nearest.material.refrac_index.den,
          den |-> nearest.material.refrac_index.num]
    ELSE nearest.material.refrac_index

\* ratio * sin(theta) > 1, with sin^2 = 1 - cos^2 of the angle between the
\* incident direction and the normal, cleared of roots and fractions.
TotalInternalReflection ==
    LET d == ray.direction
        n == nearest.intersection.normal
        m == dot(d, n.v)
        len_sqr == length_squared(d) * n.d2
    IN  RefractionRatio.num * RefractionRatio.num * (len_sqr - m * m)
            > RefractionRatio.den * RefractionRatio.den * len_sqr

\* C23: the dielectric branch returns a sample for every incident ray, hit
\* and draw, with attenuation (1,1,1) and probability 1; when
\* ratio * sin(theta) > 1 the outgoing direction is the reflection whatever
\* the state of the generator.
DielectricAlwaysScatters ==
    Sampled("Dielectric") =>
        /\ last.sample.some
        /\ last.sample.albedo = Color(ColorOne, ColorOne, ColorOne)
        /\ last.sample.probability = ColorOne
        /\ last.sample.ray.origin = nearest.intersection.hit_point
        /\ TotalInternalReflection =>
              /\ last.sample.ray.direction
                    = reflect(ray.direction, nearest.intersection.normal)
              /\ \A seed \in 0..(RandMod - 1) :
                    scatter(ray, nearest.intersection, nearest.material, seed).ray
                        = last.sample.ray

\* A ray inside the glass met the surface beyond the critical angle, its
\* draw alone would have refracted it, and it was reflected.
ReflectedBeyondCriticalAngle ==
    /\ Sampled("Dielectric")
    /\ TotalInternalReflection
    /\ ~nearest.intersection.is_normal_outward
    /\ dot(ray.direction, nearest.intersection.normal.v) < 0
    /\ last.sample.ray.direction = reflect(ray.direction, nearest.intersection.normal)
    /\ last.sample.ray.direction
          # refract(ray.direction, nearest.intersection.normal, RefractionRatio)

\* C24: for a DiffuseLight material scatter returns no sample for every
\* incident ray, hit and draw, and emit returns the color given at
\* construction; for every other kind of material emit returns (0,0,0).
LightEmitsAndNeverScatters ==
    last.op = "sample" =>
        /\ nearest.material.kind = "DiffuseLight" =>
              /\ ~last.sample.some
              /\ last.emission_color = Color(400, 300, 200)
              /\ \A seed \in 0..(RandMod - 1) :
                    ~scatter(ray, nearest.intersection, nearest.material, seed).some
        /\ nearest.material.kind # "DiffuseLight" =>
              last.emission_color = ColorZero

\* A light was hit: nothing scattered, its color emitted.
LightAbsorbedAndEmitted ==
    /\ Sampled("DiffuseLight")
    /\ ~last.sample.some
    /\ last.emission_color = Color(400, 300, 200)
    /\ last.emission_color # ColorZero


----------------------------------------------------------------------------
(* The checker texture *)

\* The colors given to new_checker.
EvenColor == Color(20, 30, 10)

OddColor == Color(90, 90, 90)

\* Largest coordinate of a position, in either direction.
MaxCoord == 3

\* Largest scale of the pattern.
MaxScale == 2

\* A checker material and a hit at a position.
CheckerInit ==
    /\ scene = SceneSky
    /\ ray = Ray(VZero, Vec3(0, 0, -1))
    /\ depth0 = 0
    /\ depth = 0
    /\ rand = 0
    /\ stack = <<>>
    /\ pc = "done"
    /\ \E x \in -MaxCoord..MaxCoord, y \in -MaxCoord..MaxCoord,
          z \in -MaxCoord..MaxCoord, scale \in 1..MaxScale :
           nearest = [intersection |->
                          [HitRecord(Vec3(0, 1, 0), TRUE)
                              EXCEPT !.hit_point = Vec3(x, y, z)],
                      material |-> new_checker(EvenColor, OddColor, scale),
                      index |-> 0]
    /\ result = ColorZero
    /\ tests = 0
    /\ samples = 0
    /\ last = [op |-> "new"]
    /\ geo = GeoIdle
    /\ render = RenderIdle

\* Texture::value at the hit, as the diffuse branch of scatter asks it.
CheckerLookup ==
    /\ last.op = "new"
    /\ result' = tex_color(nearest.material, nearest.intersection.hit_point)
    /\ last' = [op |-> "value"]
    /\ UNCHANGED <<scene, ray, depth, rand, stack, pc, nearest, tests, samples,
                   depth0, geo, render>>

CheckerNext == CheckerLookup

CheckerSpec == CheckerInit /\ [][CheckerNext]_vars

\* floor(c / scale) + ... over the three coordinates of the hit is even.
CellSumIsEven ==
    LET p == nearest.intersection.hit_point
        scale == nearest.material.tex.scale
        floor(c) == IF c >= 0 THEN c \div scale ELSE -((-c + scale - 1) \div scale)
    IN  (floor(p.x) + floor(p.y) + floor(p.z)) % 2 = 0

\* C25 as stated: new_checker(even, odd, scale) yields `even` where
\* floor(x/scale) + floor(y/scale) + floor(z/scale) is even and `odd`
\* where it is odd, negative coordinates included.
CheckerEvenCellsAreEven ==
    last.op = "value" =>
        result = IF CellSumIsEven THEN EvenColor ELSE OddColor


----------------------------------------------------------------------------
(* Properties of the box of a quad *)

\* The point p lies in the box.
PointInBox(p, box) ==
    /\ box.min.x <= p.x /\ p.x <= box.max.x
    /\ box.min.y <= p.y /\ p.y <= box.max.y
    /\ box.min.z <= p.z /\ p.z <= box.max.z

\* The four corners of a quad.
QuadCorners(q) ==
    {q.corner, VAdd(q.corner, q.edges[1]), VAdd(q.corner, q.edges[2]),
     other_corner(q)}

\* C26 as stated: the box Aabb::from_quad computes for a quad contains its
\* four corners corner, corner + edge0, corner + edge1 and
\* corner + edge0 + edge1, whatever the directions of the edges.
QuadBoxContainsCorners ==
    geo.op = "from_quad" =>
        \A i \in 1..Len(scene.shapes) :
            (scene.shapes[i].kind = "Quad" /\ geo.box = from_quad(scene.shapes[i]))
                => \A p \in QuadCorners(scene.shapes[i]) : PointInBox(p, geo.box)


(* ---------------------------------------------------------------------- *)
(* The image and the interleaving of the threads.                          *)
(* ---------------------------------------------------------------------- *)

\* The thread that owns the row: the one whose range of rows holds it.
OwnerOfRow(row, h, n) ==
    CHOOSE t \in 0..(n - 1) :
        /\ row_start_index(t, h, n) <= row
        /\ row < row_start_index(t, h, n) + rows_num(t, h, n)

RECURSIVE GeneratorAlone(_, _, _, _, _)
\* The generator of the worker thread_index at the start of turn r of its
\* loop in a run where no other thread exists: seeded, drawn for the jitter
\* table, then advanced by the rows it traced before.
GeneratorAlone(thread_index, h, n, w, r) ==
    LET drawn == pixel_samples_from(seed_from_u64(WorkerSeed), PixelSampleSize)
    IN  IF r = 0 THEN drawn.rand
        ELSE trace_row(row_start_index(thread_index, h, n) + r - 1, w,
                       drawn.pixel_samples,
                       GeneratorAlone(thread_index, h, n, w, r - 1)).rand

\* The pixels of the row as its owner traces them in such a run.
RowAlone(row, h, n, w) ==
    LET t == OwnerOfRow(row, h, n)
        drawn == pixel_samples_from(seed_from_u64(WorkerSeed), PixelSampleSize)
    IN  trace_row(row, w, drawn.pixel_samples,
                  GeneratorAlone(t, h, n, w, row - row_start_index(t, h, n))
                 ).row_pixels

\* The pixels of the row in a vector of pixels of the given width.
RowOf(pixels, width, row) == [c \in 1..width |-> pixels[row * width + c]]

\* C27: for a fixed number of worker threads the image does not depend on
\* the interleaving: in every reachable state each row already written
\* holds the pixels its owner traces from the row index, its own generator
\* seeded 1317 and its own jitter table, and the file written at the end
\* holds exactly these rows.
ImageSameForEveryInterleaving ==
    LET h == render.h
        n == render.n
        w == render.image.width
    IN  /\ \A row \in 0..(h - 1) :
              render.written[row + 1] > 0 =>
                  RowOf(render.image.pixels, w, row) = RowAlone(row, h, n, w)
        /\ render.file_written =>
              \A row \in 0..(h - 1) :
                  RowOf(render.file, w, row) = RowAlone(row, h, n, w)

\* Two workers share three rows, the second one traces two of them, and the
\* file is written.
TwoWorkersImageFiled ==
    /\ render.file_written
    /\ render.n = 2
    /\ render.h = 3
    /\ \A row \in 0..2 :
          /\ RowOf(render.file, render.image.width, row)
                 = RowAlone(row, 3, 2, render.image.width)
          /\ RowOf(render.file, render.image.width, row)[1] # BlackPixel


(* ---------------------------------------------------------------------- *)
(* The counter rows_traced and the rows of the image.                      *)
(* ---------------------------------------------------------------------- *)

\* The number of rows some write_row call has written and returned from.
RowsWritten == Cardinality({row \in 1..render.h : render.written[row] > 0})

\* The counter is at most the height and at most the number of rows
\* written, and a progress thread that has read the height reads it when
\* every row is written.
CounterBehindImage ==
    /\ render.rows_traced <= render.h
    /\ render.rows_traced <= RowsWritten
    /\ ProgressComplete(render.progress.seen, render.h) =>
          \A row \in 1..render.h : render.written[row] > 0

\* C28: rows_traced never decreases, never exceeds IMAGE_HEIGHT and never
\* exceeds the number of rows already written into the image, so when the
\* progress thread reads rows_traced == IMAGE_HEIGHT every row is written.
CounterFollowsWrittenRows ==
    /\ []CounterBehindImage
    /\ [][render'.rows_traced >= render.rows_traced]_vars

\* The progress thread has read the full height of an image of two or
\* more rows filled by two or more workers, while a worker has not yet
\* returned.
ProgressSawEveryRowWritten ==
    /\ render.h >= 2
    /\ render.n >= 2
    /\ render.progress.pc = "check"
    /\ render.progress.seen = render.h
    /\ RowsWritten = render.h
    /\ \E i \in 1..render.n : render.worker[i].pc = "loop"


(* ---------------------------------------------------------------------- *)
(* Image::write_row on its own.  The image is a new one or a new one with  *)
(* one row written before; the row index, the length of the row and the    *)
(* generator its pixels were traced with are drawn at the start, the row   *)
(* index up to one past the height and the length up to one past the width.*)
(* ---------------------------------------------------------------------- *)

\* The generators the rows given to write_row were traced with.
RowSeeds == {0, 9}

\* A row of len pixels as trace_row leaves it in the buffer.
TracedRow(row_index, len, s) ==
    trace_row(row_index, len,
              pixel_samples_from(seed_from_u64(WorkerSeed), 1).pixel_samples,
              s).row_pixels

\* The images write_row is called on.
ImagesBefore ==
    { Image_new(w, h) : w \in 0..MaxWidth, h \in 0..MaxHeight }
    \cup
    { write_row(Image_new(w, h), r, TracedRow(r, len, 0)).image :
          w \in 0..MaxWidth, h \in 1..MaxHeight,
          r \in 0..(MaxHeight - 1), len \in 1..(MaxWidth + 1) }

ImageInit ==
    /\ scene = SceneSky
    /\ ray = Ray(VZero, Vec3(0, 0, -1))
    /\ depth0 = 0
    /\ depth = 0
    /\ rand = 0
    /\ stack = <<>>
    /\ pc = "done"
    /\ nearest = NearestInit
    /\ result = ColorZero
    /\ tests = 0
    /\ samples = 0
    /\ geo = GeoIdle
    /\ \E image \in ImagesBefore :
          /\ render = [RenderIdle EXCEPT !.image = image]
          /\ \E row_index \in 0..(image.height + 1),
                len \in 0..(image.width + 1), s \in RowSeeds :
                last = [op |-> "new", row_index |-> row_index,
                        row |-> TracedRow(row_index, len, s),
                        before |-> image, panicked |-> FALSE]

\* image.write_row(row_index, &row)
ImageWriteRow ==
    /\ last.op = "new"
    /\ LET wrote == write_row(render.image, last.row_index, last.row)
       IN  /\ render' = [render EXCEPT !.image = wrote.image]
           /\ last' = [last EXCEPT !.op = "write_row",
                                   !.panicked = wrote.panicked]
    /\ UNCHANGED <<scene, ray, depth, rand, stack, pc, nearest, result, tests,
                   samples, depth0, geo>>

ImageNext == ImageWriteRow

ImageSpec == ImageInit /\ [][ImageNext]_vars

\* The smaller of two numbers.
Smaller(a, b) == IF a < b THEN a ELSE b

\* C29: write_row(r, row) fails its assertion without changing any pixel
\* when r is not below the height; otherwise it sets the pixels of row r
\* at the columns i below min(row.len(), width) to row[i] and leaves every
\* pixel of every other row, and the pixels of row r beyond that, unchanged.
WriteRowChangesOnlyItsRow ==
    last.op = "write_row" =>
        LET before == last.before
            after == render.image
            r == last.row_index
            row == last.row
        IN  /\ after.width = before.width
            /\ after.height = before.height
            /\ DOMAIN after.pixels = DOMAIN before.pixels
            /\ last.panicked <=> ~(r < before.height)
            /\ last.panicked => after = before
            /\ ~last.panicked =>
                  \A p \in DOMAIN before.pixels :
                      LET pixel_row == (p - 1) \div before.width
                          i == (p - 1) % before.width
                      IN  IF pixel_row = r /\ i < Smaller(Len(row), before.width)
                          THEN after.pixels[p] = row[i + 1]
                          ELSE after.pixels[p] = before.pixels[p]

\* A row longer than the image is wide was written above a row written
\* before: the row is cut at the width and the old row is kept.
LongRowCutAtWidth ==
    /\ last.op = "write_row"
    /\ ~last.panicked
    /\ Len(last.row) > render.image.width
    /\ render.image.width >= 1
    /\ last.row_index + 1 < render.image.height
    /\ LET next_start == (last.row_index + 1) * render.image.width
       IN  /\ render.image.pixels[next_start + 1] # BlackPixel
           /\ render.image.pixels[next_start + 1] = last.before.pixels[next_start + 1]
           /\ render.image.pixels[next_start] = last.row[render.image.width]


(* ---------------------------------------------------------------------- *)
(* build_bvh call by call.  stack holds the frames of the calls in         *)
(* progress, the innermost last; a frame keeps its slice, its shape_start, *)
(* where the call stands (at its entry, waiting for the left call or for   *)
(* the right call) and the left node once it is there.  geo.tree is the    *)
(* node the last finished call returned.  The thread's stack has room for  *)
(* MaxCallDepth frames; a call beyond that overflows it and the process    *)
(* aborts.                                                                  *)
(* ---------------------------------------------------------------------- *)

\* Number of build_bvh frames the stack of the thread has room for.
MaxCallDepth == 6

\* The frame of a call at its entry.
BuildFrame(shapes, shape_start) ==
    [shapes |-> shapes, shape_start |-> shape_start, at |-> "enter",
     left |-> BvhLeaf(Aabb(VZero, VZero), 0)]

\* The frames without the innermost.
CallerFrames == SubSeq(stack, 1, Len(stack) - 1)

\* The stack after the innermost call has returned.
Returned == IF Len(stack) = 1 THEN "done" ELSE "returned"

BuildCallInit ==
    /\ scene \in GeoScenes \cup {GeoSceneMany}
    /\ ray = Ray(VZero, Vec3(0, 0, -1))
    /\ depth0 = 0
    /\ depth = 0
    /\ rand = 0
    /\ pc = "call"
    /\ nearest = NearestInit
    /\ result = ColorZero
    /\ tests = 0
    /\ samples = 0
    /\ last = [op |-> "init"]
    /\ render = RenderIdle
    /\ \E lo \in 1..Len(scene.shapes), hi \in 0..Len(scene.shapes),
          shape_start \in 0..MaxShapeStart :
          /\ lo <= hi + 1
          /\ geo = [GeoIdle EXCEPT !.op = "build",
                                   !.slice = SubSeq(scene.shapes, lo, hi),
                                   !.shape_start = shape_start]
          /\ stack = <<BuildFrame(SubSeq(scene.shapes, lo, hi), shape_start)>>

\* if shapes.len() == 1 { Arc::new(BvhNode::Leaf(...)) }
BuildLeaf ==
    /\ pc = "call"
    /\ LET frame == stack[Len(stack)]
       IN  /\ Len(frame.shapes) = 1
           /\ geo' = [geo EXCEPT !.tree = BvhLeaf(calc_aabb(frame.shapes[1]),
                                                  frame.shape_start)]
           /\ pc' = Returned
           /\ stack' = CallerFrames
    /\ UNCHANGED <<scene, ray, depth, rand, nearest, result, tests, samples,
                   last, depth0, render>>

\* else { let middle = shapes.len() / 2;
\*        let left = build_bvh(&shapes[..middle], shape_start);
BuildCallLeft ==
    /\ pc = "call"
    /\ Len(stack) < MaxCallDepth
    /\ LET frame == stack[Len(stack)]
           middle == Len(frame.shapes) \div 2
       IN  /\ Len(frame.shapes) # 1
           /\ stack' = Append([stack EXCEPT ![Len(stack)].at = "left"],
                              BuildFrame(SubSeq(frame.shapes, 1, middle),
                                         frame.shape_start))
    /\ UNCHANGED <<scene, ray, depth, rand, pc, nearest, result, tests, samples,
                   last, depth0, geo, render>>

\* The same call with no room left for its frame: the stack overflows.
BuildStackOverflow ==
    /\ pc = "call"
    /\ Len(stack) >= MaxCallDepth
    /\ Len(stack[Len(stack)].shapes) # 1
    /\ pc' = "overflow"
    /\ UNCHANGED <<scene, ray, depth, rand, stack, nearest, result, tests,
                   samples, last, depth0, geo, render>>

\* let right = build_bvh(&shapes[middle..], shape_start + middle);
BuildCallRight ==
    /\ pc = "returned"
    /\ LET frame == stack[Len(stack)]
           middle == Len(frame.shapes) \div 2
       IN  /\ frame.at = "left"
           /\ stack' = Append([stack EXCEPT ![Len(stack)].at = "right",
                                            ![Len(stack)].left = geo.tree],
                              BuildFrame(SubSeq(frame.shapes, middle + 1,
                                                Len(frame.shapes)),
                                         frame.shape_start + middle))
           /\ pc' = "call"
    /\ UNCHANGED <<scene, ray, depth, rand, nearest, result, tests, samples,
                   last, depth0, geo, render>>

\* Arc::new(BvhNode::Link(BvhLink { aabb: Aabb::merge(...), left, right }))
BuildLink ==
    /\ pc = "returned"
    /\ LET frame == stack[Len(stack)]
       IN  /\ frame.at = "right"
           /\ geo' = [geo EXCEPT !.tree = BvhLink(merge(frame.left.aabb,
                                                        geo.tree.aabb),
                                                  frame.left, geo.tree)]
           /\ pc' = Returned
           /\ stack' = CallerFrames
    /\ UNCHANGED <<scene, ray, depth, rand, nearest, result, tests, samples,
                   last, depth0, render>>

BuildCallNext ==
    \/ BuildLeaf
    \/ BuildCallLeft
    \/ BuildStackOverflow
    \/ BuildCallRight
    \/ BuildLink

\* A call in progress goes on: the thread is never suspended for ever.
BuildCallSpec ==
    BuildCallInit /\ [][BuildCallNext]_vars /\ WF_vars(BuildCallNext)

\* C30: build_bvh terminates on an empty primitive slice: the call on a
\* slice of length 0 returns a node, it does not recurse without bound.
BuildOnEmptySliceReturns ==
    (geo.slice = <<>>) => <>(pc = "done")

=============================================================================
